---- MODULE Spec2Model ----
(***************************************************************************)
(* Model of the HTML metadata-extraction pipeline of generate_llmr.py:     *)
(* UniversalHTMLParser (event handlers), ContentTypeDetector,              *)
(* WebsiteScanner._process_page / scan and LLMRGenerator.                  *)
(*                                                                         *)
(* A Python str is a sequence of one-character strings, a Python list a    *)
(* sequence, the attribute list of a start tag a sequence of               *)
(* <<name, value>> pairs (as html.parser hands it over).                   *)
(***************************************************************************)
EXTENDS Integers, Sequences, FiniteSets, TLC

VARIABLES
  parser,       \* the UniversalHTMLParser instance of the document being fed
  cdata_elem,   \* html.parser's CDATA mode: "None", "script" or "style"
  phase,        \* position of _process_page / scan / generate
  nevents,      \* number of parse events (or fragments, or files) consumed so far
  last_event,   \* history: the parse event handled by the last step
  hist,         \* history: ownership of the text in current_content, closed elements
  page_data,    \* the dict built by _process_page (or the exception it raised)
  compressed,   \* _compress_pages([page_data])
  html_files,   \* scan: the documents found
  pages,        \* WebsiteScanner.pages
  site_metadata,\* WebsiteScanner.site_metadata (or the exception raised filling it)
  llmr_data,    \* what generate returns (or the exception it raised)
  args,         \* a direct call of a static method or of embed: its arguments
  returned      \* a direct call: the value returned, by name of the callee

vars == << parser, cdata_elem, phase, nevents, last_event, hist,
           page_data, compressed, html_files, pages, site_metadata, llmr_data,
           args, returned >>
siteVars == << page_data, compressed, html_files, pages, site_metadata, llmr_data,
               args, returned >>

(***************************************************************************)
(* Python str and list helpers                                             *)
(***************************************************************************)
Min(a, b) == IF a < b THEN a ELSE b
Max(a, b) == IF a > b THEN a ELSE b

Whitespace == {" ", "\n", "\t", "\r"}

Last(s) == s[Len(s)]
ButLast(s) == SubSeq(s, 1, Len(s) - 1)

\* s[:n]
Slice(s, n) == SubSeq(s, 1, Min(n, Len(s)))

RECURSIVE LStrip(_)
LStrip(s) == IF s # <<>> /\ Head(s) \in Whitespace THEN LStrip(Tail(s)) ELSE s

RECURSIVE RStrip(_)
RStrip(s) == IF s # <<>> /\ Last(s) \in Whitespace THEN RStrip(ButLast(s)) ELSE s

\* s.strip()
Strip(s) == RStrip(LStrip(s))

\* sep.join(list)
RECURSIVE Join(_, _)
Join(sep, list) ==
  IF list = <<>> THEN <<>>
  ELSE IF Len(list) = 1 THEN list[1]
  ELSE list[1] \o sep \o Join(sep, Tail(list))

\* len(s.split()): the number of maximal runs of non-whitespace characters
SplitCount(s) ==
  Cardinality({ i \in DOMAIN s :
                  /\ s[i] \notin Whitespace
                  /\ (i = 1 \/ s[i - 1] \in Whitespace) })

\* needle in hay
Contains(needle, hay) ==
  \E i \in 0 .. (Len(hay) - Len(needle)) :
     \A j \in DOMAIN needle : hay[i + j] = needle[j]

UpperLetters == << "A","B","C","D","E","F","G","H","I","J","K","L","M",
                   "N","O","P","Q","R","S","T","U","V","W","X","Y","Z" >>
LowerLetters == << "a","b","c","d","e","f","g","h","i","j","k","l","m",
                   "n","o","p","q","r","s","t","u","v","w","x","y","z" >>

LowerChar(c) ==
  IF \E i \in DOMAIN UpperLetters : UpperLetters[i] = c
  THEN LowerLetters[CHOOSE i \in DOMAIN UpperLetters : UpperLetters[i] = c]
  ELSE c

\* s.lower()
Lower(s) == [i \in DOMAIN s |-> LowerChar(s[i])]

\* set(s)
SeqToSet(s) == { s[i] : i \in DOMAIN s }

\* s.split(sep)[-1] for a one-character sep
SplitLast(s, sep) ==
  LET cuts == { i \in DOMAIN s : s[i] = sep }
  IN IF cuts = {} THEN s
     ELSE LET k == CHOOSE i \in cuts : \A j \in cuts : j <= i
          IN SubSeq(s, k + 1, Len(s))

\* s.split(sep) for a one-character sep
RECURSIVE SplitOn(_, _)
SplitOn(s, sep) ==
  IF \A i \in DOMAIN s : s[i] # sep THEN << s >>
  ELSE LET k == CHOOSE i \in DOMAIN s :
                  s[i] = sep /\ \A j \in 1 .. (i - 1) : s[j] # sep
       IN << SubSeq(s, 1, k - 1) >> \o SplitOn(SubSeq(s, k + 1, Len(s)), sep)

\* [k.strip() for k in list if k.strip()]
StripNonEmpty(list) ==
  LET IsNonEmpty(x) == x # <<>>
  IN SelectSeq([i \in DOMAIN list |-> Strip(list[i])], IsNonEmpty)

\* dict(attrs): a later pair of the same name overwrites an earlier one
HasAttr(attrs, k) == \E i \in DOMAIN attrs : attrs[i][1] = k
AttrGet(attrs, k, default) ==
  IF HasAttr(attrs, k)
  THEN attrs[CHOOSE i \in DOMAIN attrs :
               /\ attrs[i][1] = k
               /\ \A j \in DOMAIN attrs : attrs[j][1] = k => j <= i][2]
  ELSE default

(***************************************************************************)
(* String constants of the source                                          *)
(***************************************************************************)
s_description == <<"d","e","s","c","r","i","p","t","i","o","n">>
s_og_description == <<"o","g",":","d","e","s","c","r","i","p","t","i","o","n">>
s_keywords == <<"k","e","y","w","o","r","d","s">>
s_author == <<"a","u","t","h","o","r">>
s_article_author == <<"a","r","t","i","c","l","e",":","a","u","t","h","o","r">>
s_og_title == <<"o","g",":","t","i","t","l","e">>
s_og_type == <<"o","g",":","t","y","p","e">>
s_ld_json == <<"a","p","p","l","i","c","a","t","i","o","n","/","l","d","+","j","s","o","n">>
s_canonical == <<"c","a","n","o","n","i","c","a","l">>
s_en == <<"e","n">>
s_at_type == <<"@","t","y","p","e">>
s_WebPage == <<"W","e","b","P","a","g","e">>
s_unknown == <<"u","n","k","n","o","w","n">>

HeadingTags == {"h1", "h2", "h3", "h4", "h5", "h6"}
CapturingTags == HeadingTags \cup {"p", "a", "li", "pre", "code"}

(***************************************************************************)
(* JSON values and json.loads                                              *)
(*                                                                         *)
(* Every Python value that can come out of json.loads has the same shape:  *)
(* kind, str (the text of a string or of a number), items (a list's        *)
(* elements), members (a dict's <<key, value>> pairs in insertion order).  *)
(***************************************************************************)
JVal(kind, str, items, members) ==
  [kind |-> kind, str |-> str, items |-> items, members |-> members]
JNull == JVal("null", <<>>, <<>>, <<>>)
JTrue == JVal("true", <<>>, <<>>, <<>>)
JFalse == JVal("false", <<>>, <<>>, <<>>)
JNum(digits) == JVal("number", digits, <<>>, <<>>)
JStr(s) == JVal("string", s, <<>>, <<>>)
JArr(items) == JVal("array", <<>>, items, <<>>)
JObj(members) == JVal("object", <<>>, <<>>, members)

\* d[k] = v on the pair list of a dict
DictSet(members, k, v) ==
  IF \E i \in DOMAIN members : members[i][1] = k
  THEN [i \in DOMAIN members |->
          IF members[i][1] = k THEN << k, v >> ELSE members[i]]
  ELSE Append(members, << k, v >>)
DictHas(members, k) == \E i \in DOMAIN members : members[i][1] = k
DictGet(members, k) ==
  members[CHOOSE i \in DOMAIN members : members[i][1] = k][2]

Digits == {"0", "1", "2", "3", "4", "5", "6", "7", "8", "9"}

RECURSIVE SkipWs(_, _)
SkipWs(s, i) ==
  IF i <= Len(s) /\ s[i] \in Whitespace THEN SkipWs(s, i + 1) ELSE i

\* the index of the next double quote at or after i, 0 if there is none
RECURSIVE ScanQuote(_, _)
ScanQuote(s, i) ==
  IF i > Len(s) THEN 0
  ELSE IF s[i] = "\"" THEN i
  ELSE ScanQuote(s, i + 1)

\* the first index at or after i that holds no digit
RECURSIVE ScanDigits(_, _)
ScanDigits(s, i) ==
  IF i <= Len(s) /\ s[i] \in Digits THEN ScanDigits(s, i + 1) ELSE i

JFail == [ok |-> FALSE, val |-> JNull, pos |-> 0]
JOk(v, pos) == [ok |-> TRUE, val |-> v, pos |-> pos]

StartsWith(s, i, word) ==
  /\ i + Len(word) - 1 <= Len(s)
  /\ SubSeq(s, i, i + Len(word) - 1) = word

\* JSONDecoder.raw_decode from index i (strings without escapes, integers,
\* true/false/null, arrays, objects)
RECURSIVE ParseValue(_, _)
RECURSIVE ParseElems(_, _, _)
RECURSIVE ParseMembers(_, _, _)

ParseNumber(s, i) ==
  LET d == IF s[i] = "-" THEN i + 1 ELSE i
  IN IF d > Len(s) \/ s[d] \notin Digits THEN JFail
     ELSE LET e == IF s[d] = "0" THEN d + 1 ELSE ScanDigits(s, d)
          IN JOk(JNum(SubSeq(s, i, e - 1)), e)

ParseValue(s, i0) ==
  LET i == SkipWs(s, i0)
  IN IF i > Len(s) THEN JFail
     ELSE IF s[i] = "\"" THEN
        LET j == ScanQuote(s, i + 1)
        IN IF j = 0 THEN JFail ELSE JOk(JStr(SubSeq(s, i + 1, j - 1)), j + 1)
     ELSE IF s[i] = "[" THEN
        LET k == SkipWs(s, i + 1)
        IN IF k <= Len(s) /\ s[k] = "]" THEN JOk(JArr(<<>>), k + 1)
           ELSE ParseElems(s, i + 1, <<>>)
     ELSE IF s[i] = "{" THEN
        LET k == SkipWs(s, i + 1)
        IN IF k <= Len(s) /\ s[k] = "}" THEN JOk(JObj(<<>>), k + 1)
           ELSE ParseMembers(s, i + 1, <<>>)
     ELSE IF s[i] = "-" \/ s[i] \in Digits THEN ParseNumber(s, i)
     ELSE IF StartsWith(s, i, <<"t","r","u","e">>) THEN JOk(JTrue, i + 4)
     ELSE IF StartsWith(s, i, <<"f","a","l","s","e">>) THEN JOk(JFalse, i + 5)
     ELSE IF StartsWith(s, i, <<"n","u","l","l">>) THEN JOk(JNull, i + 4)
     ELSE JFail

ParseElems(s, i, acc) ==
  LET r == ParseValue(s, i)
  IN IF ~r.ok THEN JFail
     ELSE LET k == SkipWs(s, r.pos)
          IN IF k > Len(s) THEN JFail
             ELSE IF s[k] = "]" THEN JOk(JArr(Append(acc, r.val)), k + 1)
             ELSE IF s[k] = "," THEN ParseElems(s, k + 1, Append(acc, r.val))
             ELSE JFail

ParseMembers(s, i0, acc) ==
  LET i == SkipWs(s, i0)
  IN IF i > Len(s) \/ s[i] # "\"" THEN JFail
     ELSE LET j == ScanQuote(s, i + 1)
          IN IF j = 0 THEN JFail
             ELSE LET key == SubSeq(s, i + 1, j - 1)
                      c == SkipWs(s, j + 1)
                  IN IF c > Len(s) \/ s[c] # ":" THEN JFail
                     ELSE LET r == ParseValue(s, c + 1)
                          IN IF ~r.ok THEN JFail
                             ELSE LET k == SkipWs(s, r.pos)
                                      acc2 == DictSet(acc, key, r.val)
                                  IN IF k > Len(s) THEN JFail
                                     ELSE IF s[k] = "}" THEN JOk(JObj(acc2), k + 1)
                                     ELSE IF s[k] = "," THEN ParseMembers(s, k + 1, acc2)
                                     ELSE JFail

\* json.loads(s): ok is FALSE where it raises JSONDecodeError (no value, or
\* data after the value)
JsonLoads(s) ==
  LET r == ParseValue(s, 1)
  IN IF r.ok /\ SkipWs(s, r.pos) = Len(s) + 1 THEN r ELSE JFail

(***************************************************************************)
(* UniversalHTMLParser                                                     *)
(*                                                                         *)
(* None is "None" (html.parser lowercases tag names, so no tag has that    *)
(* name); in_script is "False", "True" or "json-ld"; og_type is an         *)
(* attribute that exists only once set (has_og_type).                      *)
(***************************************************************************)
NewParser ==
  [ title |-> <<>>, description |-> <<>>, keywords |-> <<>>, author |-> <<>>,
    language |-> s_en, canonical_url |-> <<>>,
    headings |-> [h \in HeadingTags |-> <<>>],
    paragraphs |-> <<>>, links |-> <<>>, images |-> <<>>, videos |-> <<>>,
    code_blocks |-> <<>>, lists |-> <<>>,
    json_ld_data |-> <<>>, microdata_items |-> <<>>, rdfa_data |-> <<>>,
    current_tag |-> "None", tag_stack |-> <<>>,
    in_script |-> "False", in_style |-> FALSE, current_content |-> <<>>,
    word_count |-> 0, estimated_read_time |-> 0,
    has_og_type |-> FALSE, og_type |-> <<>> ]

\* _parse_meta_tag with og:title written whatever the title is
parse_meta_tag_og_title_overwrites(p, attrs) ==
  LET name == Lower(AttrGet(attrs, "name", <<>>))
      property_name == Lower(AttrGet(attrs, "property", <<>>))
      content == AttrGet(attrs, "content", <<>>)
  IN IF content = <<>> THEN p
     ELSE IF name = s_description \/ property_name = s_og_description
       THEN [p EXCEPT !.description = content]
     ELSE IF name = s_keywords
       THEN [p EXCEPT !.keywords = StripNonEmpty(SplitOn(content, ","))]
     ELSE IF name = s_author \/ property_name = s_article_author
       THEN [p EXCEPT !.author = content]
     ELSE IF property_name = s_og_title
       THEN [p EXCEPT !.title = content]
     ELSE IF property_name = s_og_type
       THEN IF ~p.has_og_type
            THEN [p EXCEPT !.has_og_type = TRUE, !.og_type = content]
            ELSE p
     ELSE p

parse_meta_tag(p, attrs) ==
  LET name == Lower(AttrGet(attrs, "name", <<>>))
      property_name == Lower(AttrGet(attrs, "property", <<>>))
      content == AttrGet(attrs, "content", <<>>)
  IN IF content = <<>> THEN p
     ELSE IF name = s_description \/ property_name = s_og_description
       THEN [p EXCEPT !.description = content]
     ELSE IF name = s_keywords
       THEN [p EXCEPT !.keywords = StripNonEmpty(SplitOn(content, ","))]
     ELSE IF name = s_author \/ property_name = s_article_author
       THEN [p EXCEPT !.author = content]
     ELSE IF property_name = s_og_title /\ p.title = <<>>
       THEN [p EXCEPT !.title = content]
     ELSE IF property_name = s_og_type
       THEN IF ~p.has_og_type
            THEN [p EXCEPT !.has_og_type = TRUE, !.og_type = content]
            ELSE p
     ELSE p

parse_link_tag(p, attrs) ==
  IF AttrGet(attrs, "rel", <<>>) = s_canonical
  THEN [p EXCEPT !.canonical_url = AttrGet(attrs, "href", <<>>)]
  ELSE p

parse_microdata(p, tag, attrs) ==
  LET item == [ type |-> AttrGet(attrs, "itemtype", <<>>),
                properties |->
                  IF HasAttr(attrs, "itemprop")
                  THEN << << AttrGet(attrs, "itemprop", <<>>),
                             AttrGet(attrs, "content", <<>>) >> >>
                  ELSE <<>> ]
  IN [p EXCEPT !.microdata_items = Append(@, item)]

parse_rdfa(p, tag, attrs) ==
  [p EXCEPT !.rdfa_data =
     Append(@, [ property |-> AttrGet(attrs, "property", <<>>),
                 typeof |-> AttrGet(attrs, "typeof", <<>>),
                 content |-> AttrGet(attrs, "content", <<>>) ])]

handle_starttag(p, tag, attrs) ==
  LET p1 == [p EXCEPT !.current_tag = tag, !.tag_stack = Append(@, tag)]
      p2 == IF tag = "meta" THEN parse_meta_tag(p1, attrs)
            ELSE IF tag = "link" THEN parse_link_tag(p1, attrs)
            ELSE IF tag = "a" /\ HasAttr(attrs, "href") THEN
              [p1 EXCEPT !.links =
                 Append(@, [ url |-> AttrGet(attrs, "href", <<>>),
                             text |-> <<>>,
                             rel |-> AttrGet(attrs, "rel", <<>>),
                             title |-> AttrGet(attrs, "title", <<>>) ])]
            ELSE IF tag = "img" THEN
              [p1 EXCEPT !.images =
                 Append(@, [ src |-> AttrGet(attrs, "src", <<>>),
                             alt |-> AttrGet(attrs, "alt", <<>>),
                             title |-> AttrGet(attrs, "title", <<>>) ])]
            ELSE IF tag = "video" THEN
              [p1 EXCEPT !.videos =
                 Append(@, [ src |-> AttrGet(attrs, "src", <<>>),
                             poster |-> AttrGet(attrs, "poster", <<>>) ])]
            ELSE IF tag = "script" THEN
              [p1 EXCEPT !.in_script =
                 IF AttrGet(attrs, "type", <<>>) = s_ld_json
                 THEN "json-ld" ELSE "True"]
            ELSE IF tag = "style" THEN [p1 EXCEPT !.in_style = TRUE]
            ELSE IF tag \in {"pre", "code"} THEN
              [p1 EXCEPT !.code_blocks =
                 Append(@, [tag |-> tag, content |-> <<>>])]
            ELSE p1
      p3 == IF HasAttr(attrs, "itemscope")
            THEN parse_microdata(p2, tag, attrs) ELSE p2
      p4 == IF \E k \in {"property", "typeof", "vocab"} : HasAttr(attrs, k)
            THEN parse_rdfa(p3, tag, attrs) ELSE p3
  IN IF tag = "html" /\ HasAttr(attrs, "lang")
     THEN [p4 EXCEPT !.language = AttrGet(attrs, "lang", <<>>)]
     ELSE p4

\* lines 156-165: the script branch of handle_endtag
EndScript(p) ==
  LET r == JsonLoads(Join(<<" ">>, p.current_content))
  IN [p EXCEPT
        !.json_ld_data =
           IF p.in_script = "json-ld" /\ p.current_content # <<>> /\ r.ok
           THEN Append(@, r.val) ELSE @,
        !.in_script = "False",
        !.current_content = <<>>]

\* handle_endtag popping tag_stack whatever its top is
handle_endtag_pop_always(p, tag) ==
  LET p1 == IF p.tag_stack # <<>>
            THEN [p EXCEPT !.tag_stack = ButLast(@)]
            ELSE p
      content == Strip(Join(<<" ">>, p.current_content))
      p2 == IF tag \in HeadingTags /\ p.current_content # <<>> THEN
              [p1 EXCEPT
                 !.headings[tag] = IF content # <<>> THEN Append(@, content) ELSE @,
                 !.current_content = <<>>]
            ELSE IF tag = "p" /\ p.current_content # <<>> THEN
              [p1 EXCEPT
                 !.paragraphs = IF content # <<>> THEN Append(@, content) ELSE @,
                 !.word_count = IF content # <<>> THEN @ + SplitCount(content) ELSE @,
                 !.current_content = <<>>]
            ELSE IF tag = "a" /\ p.links # <<>> /\ p.current_content # <<>> THEN
              [p1 EXCEPT
                 !.links[Len(p.links)].text = content,
                 !.current_content = <<>>]
            ELSE IF tag \in {"pre", "code"} /\ p.code_blocks # <<>> THEN
              [p1 EXCEPT
                 !.code_blocks[Len(p.code_blocks)].content = content,
                 !.current_content = <<>>]
            ELSE IF tag = "script" THEN EndScript(p1)
            ELSE IF tag = "style" THEN
              [p1 EXCEPT !.in_style = FALSE, !.current_content = <<>>]
            ELSE p1
  IN [p2 EXCEPT !.current_tag =
        IF p2.tag_stack # <<>> THEN Last(p2.tag_stack) ELSE "None"]

\* handle_endtag counting one word for each paragraph
handle_endtag_counts_paragraphs(p, tag) ==
  LET p1 == IF p.tag_stack # <<>> /\ Last(p.tag_stack) = tag
            THEN [p EXCEPT !.tag_stack = ButLast(@)]
            ELSE p
      content == Strip(Join(<<" ">>, p.current_content))
      p2 == IF tag \in HeadingTags /\ p.current_content # <<>> THEN
              [p1 EXCEPT
                 !.headings[tag] = IF content # <<>> THEN Append(@, content) ELSE @,
                 !.current_content = <<>>]
            ELSE IF tag = "p" /\ p.current_content # <<>> THEN
              [p1 EXCEPT
                 !.paragraphs = IF content # <<>> THEN Append(@, content) ELSE @,
                 !.word_count = IF content # <<>> THEN @ + 1 ELSE @,
                 !.current_content = <<>>]
            ELSE IF tag = "a" /\ p.links # <<>> /\ p.current_content # <<>> THEN
              [p1 EXCEPT
                 !.links[Len(p.links)].text = content,
                 !.current_content = <<>>]
            ELSE IF tag \in {"pre", "code"} /\ p.code_blocks # <<>> THEN
              [p1 EXCEPT
                 !.code_blocks[Len(p.code_blocks)].content = content,
                 !.current_content = <<>>]
            ELSE IF tag = "script" THEN EndScript(p1)
            ELSE IF tag = "style" THEN
              [p1 EXCEPT !.in_style = FALSE, !.current_content = <<>>]
            ELSE p1
  IN [p2 EXCEPT !.current_tag =
        IF p2.tag_stack # <<>> THEN Last(p2.tag_stack) ELSE "None"]

\* handle_endtag without line 171: current_tag is left as it was
handle_endtag_keeps_current_tag(p, tag) ==
  LET p1 == IF p.tag_stack # <<>> /\ Last(p.tag_stack) = tag
            THEN [p EXCEPT !.tag_stack = ButLast(@)]
            ELSE p
      content == Strip(Join(<<" ">>, p.current_content))
      p2 == IF tag \in HeadingTags /\ p.current_content # <<>> THEN
              [p1 EXCEPT
                 !.headings[tag] = IF content # <<>> THEN Append(@, content) ELSE @,
                 !.current_content = <<>>]
            ELSE IF tag = "p" /\ p.current_content # <<>> THEN
              [p1 EXCEPT
                 !.paragraphs = IF content # <<>> THEN Append(@, content) ELSE @,
                 !.word_count = IF content # <<>> THEN @ + SplitCount(content) ELSE @,
                 !.current_content = <<>>]
            ELSE IF tag = "a" /\ p.links # <<>> /\ p.current_content # <<>> THEN
              [p1 EXCEPT
                 !.links[Len(p.links)].text = content,
                 !.current_content = <<>>]
            ELSE IF tag \in {"pre", "code"} /\ p.code_blocks # <<>> THEN
              [p1 EXCEPT
                 !.code_blocks[Len(p.code_blocks)].content = content,
                 !.current_content = <<>>]
            ELSE IF tag = "script" THEN EndScript(p1)
            ELSE IF tag = "style" THEN
              [p1 EXCEPT !.in_style = FALSE, !.current_content = <<>>]
            ELSE p1
  IN p2

\* lines 127-171
handle_endtag(p, tag) ==
  LET p1 == IF p.tag_stack # <<>> /\ Last(p.tag_stack) = tag
            THEN [p EXCEPT !.tag_stack = ButLast(@)]
            ELSE p
      content == Strip(Join(<<" ">>, p.current_content))
      p2 == IF tag \in HeadingTags /\ p.current_content # <<>> THEN
              [p1 EXCEPT
                 !.headings[tag] = IF content # <<>> THEN Append(@, content) ELSE @,
                 !.current_content = <<>>]
            ELSE IF tag = "p" /\ p.current_content # <<>> THEN
              [p1 EXCEPT
                 !.paragraphs = IF content # <<>> THEN Append(@, content) ELSE @,
                 !.word_count = IF content # <<>> THEN @ + SplitCount(content) ELSE @,
                 !.current_content = <<>>]
            ELSE IF tag = "a" /\ p.links # <<>> /\ p.current_content # <<>> THEN
              [p1 EXCEPT
                 !.links[Len(p.links)].text = content,
                 !.current_content = <<>>]
            ELSE IF tag \in {"pre", "code"} /\ p.code_blocks # <<>> THEN
              [p1 EXCEPT
                 !.code_blocks[Len(p.code_blocks)].content = content,
                 !.current_content = <<>>]
            ELSE IF tag = "script" THEN EndScript(p1)
            ELSE IF tag = "style" THEN
              [p1 EXCEPT !.in_style = FALSE, !.current_content = <<>>]
            ELSE p1
  IN [p2 EXCEPT !.current_tag =
        IF p2.tag_stack # <<>> THEN Last(p2.tag_stack) ELSE "None"]

handle_data(p, data0) ==
  LET data == Strip(data0)
  IN IF data = <<>> \/ p.in_style THEN p
     ELSE IF p.in_script # "False"
       THEN [p EXCEPT !.current_content = Append(@, data)]
     ELSE IF p.current_tag = "title" /\ p.title = <<>>
       THEN [p EXCEPT !.title = data]
     ELSE IF p.current_tag \in CapturingTags
       THEN [p EXCEPT !.current_content = Append(@, data)]
     ELSE p

\* round(n / d) of Python 3 for integers n >= 0, d > 0: to the nearest
\* integer, a tie to the even one
RoundHalfEven(n, d) ==
  LET q == n \div d
      r == n % d
  IN IF 2 * r < d THEN q
     ELSE IF 2 * r > d THEN q + 1
     ELSE IF q % 2 = 0 THEN q ELSE q + 1

WordsPerMinute == 200

calculate_read_time(p) ==
  IF p.word_count > 0
  THEN [p EXCEPT !.estimated_read_time =
          Max(1, RoundHalfEven(p.word_count, WordsPerMinute))]
  ELSE p

(***************************************************************************)
(* ContentTypeDetector                                                     *)
(*                                                                         *)
(* A call either returns a value or raises: raised is "None" or the name   *)
(* of the exception.  A Python str result is the JSON string value JStr.   *)
(***************************************************************************)
Ok(v) == [raised |-> "None", value |-> v]
Raise(e) == [raised |-> e, value |-> JNull]

SCHEMA_TYPES ==
  <<
    << <<"A","r","t","i","c","l","e">>,
       << <<"a","r","t","i","c","l","e">>, <<"b","l","o","g">>, <<"p","o","s","t">>, <<"n","e","w","s">> >> >>,
    << <<"B","l","o","g","P","o","s","t","i","n","g">>,
       << <<"b","l","o","g">>, <<"p","o","s","t">> >> >>,
    << <<"N","e","w","s","A","r","t","i","c","l","e">>,
       << <<"n","e","w","s">>, <<"p","r","e","s","s">> >> >>,
    << <<"P","r","o","d","u","c","t">>,
       << <<"p","r","o","d","u","c","t">>, <<"i","t","e","m">>, <<"s","h","o","p">> >> >>,
    << <<"E","v","e","n","t">>,
       << <<"e","v","e","n","t">>, <<"c","o","n","f","e","r","e","n","c","e">>, <<"m","e","e","t","u","p">> >> >>,
    << <<"O","r","g","a","n","i","z","a","t","i","o","n">>,
       << <<"a","b","o","u","t">>, <<"c","o","m","p","a","n","y">>, <<"o","r","g","a","n","i","z","a","t","i","o","n">> >> >>,
    << <<"P","e","r","s","o","n">>,
       << <<"p","r","o","f","i","l","e">>, <<"a","u","t","h","o","r">>, <<"b","i","o">> >> >>,
    << <<"W","e","b","P","a","g","e">>,
       << <<"p","a","g","e">> >> >>,
    << <<"H","o","w","T","o">>,
       << <<"t","u","t","o","r","i","a","l">>, <<"g","u","i","d","e">>, <<"h","o","w","t","o">> >> >>,
    << <<"F","A","Q","P","a","g","e">>,
       << <<"f","a","q">>, <<"q","u","e","s","t","i","o","n","s">> >> >>,
    << <<"C","o","n","t","a","c","t","P","a","g","e">>,
       << <<"c","o","n","t","a","c","t">> >> >>,
    << <<"R","e","c","i","p","e">>,
       << <<"r","e","c","i","p","e">>, <<"c","o","o","k","i","n","g">> >> >>,
    << <<"V","i","d","e","o","O","b","j","e","c","t">>,
       << <<"v","i","d","e","o">>, <<"w","a","t","c","h">> >> >>,
    << <<"C","o","u","r","s","e">>,
       << <<"c","o","u","r","s","e">>, <<"t","r","a","i","n","i","n","g">>, <<"l","e","a","r","n">> >> >>,
    << <<"J","o","b","P","o","s","t","i","n","g">>,
       << <<"j","o","b">>, <<"c","a","r","e","e","r">>, <<"h","i","r","i","n","g">> >> >>,
    << <<"R","e","v","i","e","w">>,
       << <<"r","e","v","i","e","w">>, <<"r","a","t","i","n","g">> >> >>
  >>

\* `"@type" in ld`: a key of a dict, an element of a list, a substring of a
\* str; TypeError for a number, a bool or None
InRaises(ld) == ld.kind \in {"number", "true", "false", "null"}
HasAtType(ld) ==
  IF ld.kind = "object" THEN DictHas(ld.members, s_at_type)
  ELSE IF ld.kind = "array" THEN \E j \in DOMAIN ld.items : ld.items[j] = JStr(s_at_type)
  ELSE Contains(s_at_type, ld.str)

\* lines 278-284, from the i-th collected value on: found is FALSE when the
\* loop ends without returning
RECURSIVE DetectJsonLd(_, _)
DetectJsonLd(lds, i) ==
  IF i > Len(lds) THEN [found |-> FALSE, result |-> Ok(JNull)]
  ELSE IF InRaises(lds[i]) THEN [found |-> TRUE, result |-> Raise("TypeError")]
  ELSE IF ~HasAtType(lds[i]) THEN DetectJsonLd(lds, i + 1)
  ELSE IF lds[i].kind # "object" THEN [found |-> TRUE, result |-> Raise("TypeError")]
  ELSE LET schema_type == DictGet(lds[i].members, s_at_type)
       IN IF schema_type.kind = "array"
          THEN IF schema_type.items = <<>>
               THEN [found |-> TRUE, result |-> Raise("IndexError")]
               ELSE [found |-> TRUE, result |-> Ok(schema_type.items[1])]
          ELSE [found |-> TRUE, result |-> Ok(schema_type)]

\* lines 287-291
TypedItems(p) == { i \in DOMAIN p.microdata_items : p.microdata_items[i].type # <<>> }
DetectMicrodata(p) ==
  LET i == CHOOSE k \in TypedItems(p) : \A j \in TypedItems(p) : k <= j
  IN JStr(SplitLast(p.microdata_items[i].type, "/"))

\* the content text with the h1 headings cut to the first three
ContentText_three_h1(p) ==
  Lower(Join(<<" ">>, << p.title, p.description,
                         Join(<<" ">>, Slice(p.headings["h1"], 3)),
                         Join(<<" ">>, Slice(p.paragraphs, 3)) >>))

\* lines 298-309
ContentText(p) ==
  Lower(Join(<<" ">>, << p.title, p.description,
                         Join(<<" ">>, p.headings["h1"]),
                         Join(<<" ">>, Slice(p.paragraphs, 3)) >>))
KeywordHit(t, url_lower, content_text) ==
  \E k \in DOMAIN SCHEMA_TYPES[t][2] :
     \/ Contains(SCHEMA_TYPES[t][2][k], url_lower)
     \/ Contains(SCHEMA_TYPES[t][2][k], content_text)
\* the first entry of the table, in declaration order, one of whose keywords
\* occurs; 0 when the loops end without returning
RECURSIVE KeywordLoop(_, _, _)
KeywordLoop(t, url_lower, content_text) ==
  IF t > Len(SCHEMA_TYPES) THEN 0
  ELSE IF KeywordHit(t, url_lower, content_text) THEN t
  ELSE KeywordLoop(t + 1, url_lower, content_text)

detect_type(p, url) ==
  LET ld == DetectJsonLd(p.json_ld_data, 1)
      url_lower == Lower(url)
      content_text == ContentText(p)
      t == KeywordLoop(1, url_lower, content_text)
  IN IF ld.found THEN ld.result
     ELSE IF TypedItems(p) # {} THEN Ok(DetectMicrodata(p))
     ELSE IF p.has_og_type THEN Ok(JStr(p.og_type))
     ELSE IF t # 0 THEN Ok(JStr(SCHEMA_TYPES[t][1]))
     ELSE Ok(JStr(s_WebPage))

RecognizedKeys ==
  << <<"d","a","t","e","P","u","b","l","i","s","h","e","d">>,
     <<"d","a","t","e","M","o","d","i","f","i","e","d">>,
     <<"h","e","a","d","l","i","n","e">>,
     <<"a","r","t","i","c","l","e","B","o","d","y">>,
     <<"k","e","y","w","o","r","d","s">>,
     <<"a","u","t","h","o","r">>,
     <<"p","u","b","l","i","s","h","e","r">>,
     <<"i","m","a","g","e">> >>

\* lines 331-334 for one JSON-LD dict, from the k-th recognized key on
RECURSIVE CopyKeys(_, _, _)
CopyKeys(data, ld, k) ==
  IF k > Len(RecognizedKeys) THEN data
  ELSE CopyKeys(IF DictHas(ld.members, RecognizedKeys[k])
                THEN DictSet(data, RecognizedKeys[k],
                             DictGet(ld.members, RecognizedKeys[k]))
                ELSE data,
                ld, k + 1)

\* lines 328-334, from the i-th collected value on
RECURSIVE CopyJsonLd(_, _, _)
CopyJsonLd(data, lds, i) ==
  IF i > Len(lds) THEN data
  ELSE CopyJsonLd(IF lds[i].kind = "object" THEN CopyKeys(data, lds[i], 1) ELSE data,
                  lds, i + 1)

extract_schema_data(p, content_type) ==
  CopyJsonLd(<< << <<"t","y","p","e">>, content_type >>,
                << <<"t","i","t","l","e">>, JStr(p.title) >>,
                << s_description, JStr(p.description) >>,
                << s_author, JStr(p.author) >>,
                << <<"l","a","n","g","u","a","g","e">>, JStr(p.language) >> >>,
             p.json_ld_data, 1)

(***************************************************************************)
(* KeywordExtractor                                                        *)
(***************************************************************************)
STOP_WORDS ==
  {
    <<"t","h","e">>, <<"b","e">>, <<"t","o">>, <<"o","f">>,
    <<"a","n","d">>, <<"a">>, <<"i","n">>, <<"t","h","a","t">>,
    <<"h","a","v","e">>, <<"i">>, <<"i","t">>, <<"f","o","r">>,
    <<"n","o","t">>, <<"o","n">>, <<"w","i","t","h">>, <<"h","e">>,
    <<"a","s">>, <<"y","o","u">>, <<"d","o">>, <<"a","t">>,
    <<"t","h","i","s">>, <<"b","u","t">>, <<"h","i","s">>, <<"b","y">>,
    <<"f","r","o","m">>, <<"t","h","e","y">>, <<"w","e">>, <<"s","a","y">>,
    <<"h","e","r">>, <<"s","h","e">>, <<"o","r">>, <<"a","n">>,
    <<"w","i","l","l">>, <<"m","y">>, <<"o","n","e">>, <<"a","l","l">>,
    <<"w","o","u","l","d">>, <<"t","h","e","r","e">>, <<"t","h","e","i","r">>, <<"w","h","a","t">>,
    <<"s","o">>, <<"u","p">>, <<"o","u","t">>, <<"i","f">>,
    <<"a","b","o","u","t">>, <<"w","h","o">>, <<"g","e","t">>, <<"w","h","i","c","h">>,
    <<"g","o">>, <<"m","e">> }

MaxKeywords == 10

LowerSet == { LowerLetters[i] : i \in DOMAIN LowerLetters }
WordChars ==
  LowerSet \cup { UpperLetters[i] : i \in DOMAIN UpperLetters } \cup Digits \cup {"_"}

\* the maximal runs of word characters (\w) of s, in order
WordRuns(s) ==
  LET starts == { i \in DOMAIN s :
                    s[i] \in WordChars /\ (i = 1 \/ s[i - 1] \notin WordChars) }
      ends == { i \in DOMAIN s :
                  s[i] \in WordChars /\ (i = Len(s) \/ s[i + 1] \notin WordChars) }
      Start(k) == CHOOSE i \in starts : Cardinality({ j \in starts : j < i }) = k - 1
      End(i) == CHOOSE j \in ends : j >= i /\ \A k \in ends : k >= i => j <= k
  IN [k \in 1 .. Cardinality(starts) |-> SubSeq(s, Start(k), End(Start(k)))]

\* re.findall(r'\b[a-z]{3,}\b', s): \b holds only at the two ends of a run of
\* word characters, so a match is a whole run made of at least 3 letters a-z
FindWords(s) ==
  LET IsWord(r) == Len(r) >= 3 /\ \A i \in DOMAIN r : r[i] \in LowerSet
  IN SelectSeq(WordRuns(s), IsWord)

\* the keys of Counter(words): the distinct words in first-seen order
RECURSIVE CounterKeys(_, _)
CounterKeys(words, acc) ==
  IF words = <<>> THEN acc
  ELSE CounterKeys(Tail(words),
                   IF \E i \in DOMAIN acc : acc[i] = Head(words)
                   THEN acc ELSE Append(acc, Head(words)))

CountOf(words, w) == Cardinality({ i \in DOMAIN words : words[i] = w })

\* Counter(words).most_common(n): greatest count first, equal counts in
\* first-seen order (heapq.nlargest is stable)
RECURSIVE MostCommon(_, _, _)
MostCommon(words, keys, n) ==
  IF n <= 0 \/ keys = <<>> THEN <<>>
  ELSE LET i == CHOOSE k \in DOMAIN keys :
                  /\ \A j \in DOMAIN keys :
                        CountOf(words, keys[j]) <= CountOf(words, keys[k])
                  /\ \A j \in 1 .. (k - 1) :
                        CountOf(words, keys[j]) < CountOf(words, keys[k])
           rest == [j \in 1 .. (Len(keys) - 1) |->
                      IF j < i THEN keys[j] ELSE keys[j + 1]]
       IN << keys[i] >> \o MostCommon(words, rest, n - 1)

RECURSIVE Perms(_)
Perms(S) ==
  IF S = {} THEN { <<>> }
  ELSE UNION { { << x >> \o q : q \in Perms(S \ {x}) } : x \in S }

\* extract_keywords without the slice of line 380
extract_keywords_untruncated(p, max_keywords) ==
  LET keywords == SeqToSet(p.keywords)
      all_text == Join(<<" ">>, << p.title,
                                   p.description,
                                   Join(<<" ">>, p.headings["h1"]),
                                   Join(<<" ">>, p.headings["h2"]),
                                   Join(<<" ">>, p.paragraphs) >>)
      words == FindWords(Lower(all_text))
      NotStopWord(w) == w \notin STOP_WORDS
      filtered_words == SelectSeq(words, NotStopWord)
      top_words == MostCommon(filtered_words, CounterKeys(filtered_words, <<>>),
                              max_keywords)
  IN Perms(keywords \cup SeqToSet(Slice(top_words, max_keywords)))

\* extract_keywords, lines 352-380: the lists it can return.  list(keywords)
\* follows the iteration order of a set of str, which depends on the hash
\* seed of the process, so every order of the set is a possible outcome.
extract_keywords(p, max_keywords) ==
  LET keywords == SeqToSet(p.keywords)
      all_text == Join(<<" ">>, << p.title,
                                   p.description,
                                   Join(<<" ">>, p.headings["h1"]),
                                   Join(<<" ">>, p.headings["h2"]),
                                   Join(<<" ">>, p.paragraphs) >>)
      words == FindWords(Lower(all_text))
      NotStopWord(w) == w \notin STOP_WORDS
      filtered_words == SelectSeq(words, NotStopWord)
      top_words == MostCommon(filtered_words, CounterKeys(filtered_words, <<>>),
                              max_keywords)
      updated == keywords \cup SeqToSet(Slice(top_words, max_keywords))
  IN { Slice(q, max_keywords) : q \in Perms(updated) }

(***************************************************************************)
(* EmbeddingGenerator                                                      *)
(*                                                                         *)
(* hashlib.md5 is computed as RFC 1321 defines it, on 32-bit words kept as *)
(* << high half, low half >>.  A component of the embedding is kept in     *)
(* hundredths: the model's -37 is the source's -0.37.                      *)
(***************************************************************************)
Dimensions == 16

\* the characters 32 .. 95 and 97 .. 126 of ASCII
AsciiLow ==
  <<
    " ", "!", "\"", "#", "$", "%", "&", "'", "(", ")", "*", "+", ",", "-", ".", "/",
    "0", "1", "2", "3", "4", "5", "6", "7", "8", "9", ":", ";", "<", "=", ">", "?",
    "@", "A", "B", "C", "D", "E", "F", "G", "H", "I", "J", "K", "L", "M", "N", "O",
    "P", "Q", "R", "S", "T", "U", "V", "W", "X", "Y", "Z", "[", "\\", "]", "^", "_" >>
AsciiHigh ==
  <<
    "a", "b", "c", "d", "e", "f", "g", "h", "i", "j", "k", "l", "m", "n", "o", "p",
    "q", "r", "s", "t", "u", "v", "w", "x", "y", "z", "{", "|", "}", "~" >>

\* ord(c) for the characters of ASCII, as a table
OrdTable ==
  [ c \in {"\n", "\t", "\r"} \cup SeqToSet(AsciiLow) \cup SeqToSet(AsciiHigh) |->
      IF c = "\n" THEN 10
      ELSE IF c = "\t" THEN 9
      ELSE IF c = "\r" THEN 13
      ELSE IF \E i \in DOMAIN AsciiLow : AsciiLow[i] = c
      THEN 31 + CHOOSE i \in DOMAIN AsciiLow : AsciiLow[i] = c
      ELSE 96 + CHOOSE i \in DOMAIN AsciiHigh : AsciiHigh[i] = c ]

\* text.encode() for the characters of ASCII
Ord(c) == OrdTable[c]
Encode(text) == [i \in DOMAIN text |-> Ord(text[i])]

Half == 65536

Add32(a, b) ==
  LET lo == a[2] + b[2]
  IN << (a[1] + b[1] + lo \div Half) % Half, lo % Half >>

Sum32(a, b, c, d) ==
  LET lo == a[2] + b[2] + c[2] + d[2]
  IN << (a[1] + b[1] + c[1] + d[1] + lo \div Half) % Half, lo % Half >>

\* x rotated left by s bits, 0 <= s < 32
Rotl32(x, s) ==
  LET y == IF s >= 16 THEN << x[2], x[1] >> ELSE x
      r == s % 16
      m == 2 ^ (16 - r)
  IN IF r = 0 THEN y
     ELSE << (y[1] % m) * 2 ^ r + y[2] \div m,
             (y[2] % m) * 2 ^ r + y[1] \div m >>

\* bit i of x
Bit(x, i) == (x \div 2 ^ i) % 2

\* x AND y on 4 bits, and its table: entry 16 * x + y + 1
And4(x, y) ==
  Bit(x, 0) * Bit(y, 0) + 2 * Bit(x, 1) * Bit(y, 1)
  + 4 * Bit(x, 2) * Bit(y, 2) + 8 * Bit(x, 3) * Bit(y, 3)
AndTable == [i \in 1 .. 256 |-> And4((i - 1) \div 16, (i - 1) % 16)]

\* a AND b on 16 bits, four bits at a time
And16(a, b) ==
  AndTable[(a % 16) * 16 + (b % 16) + 1]
  + 16 * AndTable[((a \div 16) % 16) * 16 + ((b \div 16) % 16) + 1]
  + 256 * AndTable[((a \div 256) % 16) * 16 + ((b \div 256) % 16) + 1]
  + 4096 * AndTable[(a \div 4096) * 16 + (b \div 4096) + 1]

Not16(a) == Half - 1 - a
Or16(a, b) == a + b - And16(a, b)
Xor16(a, b) == a + b - 2 * And16(a, b)

\* the functions F, G, H, I of the four rounds, on 16 bits
Mix16(q, b, c, d) ==
  CASE q = 0 -> And16(b, c) + And16(Not16(b), d)
    [] q = 1 -> And16(b, d) + And16(c, Not16(d))
    [] q = 2 -> Xor16(Xor16(b, c), d)
    [] OTHER -> Xor16(c, Or16(b, Not16(d)))

Mix32(q, B, C, D) ==
  << Mix16(q, B[1], C[1], D[1]), Mix16(q, B[2], C[2], D[2]) >>

Md5Shift ==
  <<
    7, 12, 17, 22, 7, 12, 17, 22, 7, 12, 17, 22, 7, 12, 17, 22,
    5, 9, 14, 20, 5, 9, 14, 20, 5, 9, 14, 20, 5, 9, 14, 20,
    4, 11, 16, 23, 4, 11, 16, 23, 4, 11, 16, 23, 4, 11, 16, 23,
    6, 10, 15, 21, 6, 10, 15, 21, 6, 10, 15, 21, 6, 10, 15, 21 >>

\* floor(2^32 * abs(sin(i))) for i = 1 .. 64
Md5Sine ==
  <<
    <<55146, 42104>>, <<59591, 46934>>, <<9248, 28891>>, <<49597, 52974>>,
    <<62844, 4015>>, <<18311, 50730>>, <<43056, 17939>>, <<64838, 38145>>,
    <<27008, 39128>>, <<35652, 63407>>, <<65535, 23473>>, <<35164, 55230>>,
    <<27536, 4386>>, <<64920, 29075>>, <<42617, 17294>>, <<18868, 2081>>,
    <<63006, 9570>>, <<49216, 45888>>, <<9822, 23121>>, <<59830, 51114>>,
    <<54831, 4189>>, <<580, 5203>>, <<55457, 59009>>, <<59347, 64456>>,
    <<8673, 52710>>, <<49975, 2006>>, <<62677, 3463>>, <<17754, 5357>>,
    <<43491, 59653>>, <<64751, 41976>>, <<26479, 729>>, <<36138, 19594>>,
    <<65530, 14658>>, <<34673, 63105>>, <<28061, 24866>>, <<64997, 14348>>,
    <<42174, 59972>>, <<19422, 53161>>, <<63163, 19296>>, <<48831, 48240>>,
    <<10395, 32454>>, <<60065, 10234>>, <<54511, 12421>>, <<1160, 7429>>,
    <<55764, 53305>>, <<59099, 39397>>, <<8098, 31992>>, <<50348, 22117>>,
    <<62505, 8772>>, <<17194, 65431>>, <<43924, 9127>>, <<64659, 41017>>,
    <<25947, 22979>>, <<36620, 52370>>, <<65519, 62589>>, <<34180, 24017>>,
    <<28584, 32335>>, <<65068, 59104>>, <<41729, 17172>>, <<19976, 4513>>,
    <<63315, 32386>>, <<48442, 62005>>, <<10967, 53947>>, <<60294, 54161>> >>

Md5Index(i) ==
  CASE i < 16 -> i
    [] i < 32 -> (5 * i + 1) % 16
    [] i < 48 -> (3 * i + 5) % 16
    [] OTHER -> (7 * i) % 16

\* rounds i .. 63 on the state st = << A, B, C, D >>; the test on st has the
\* state of a round evaluated before the next round starts
RECURSIVE Md5Rounds(_, _, _)
Md5Rounds(st, M, i) ==
  IF i = 64 \/ Len(st) # 4 THEN st
  ELSE LET f == Sum32(Mix32(i \div 16, st[2], st[3], st[4]), st[1],
                      Md5Sine[i + 1], M[Md5Index(i) + 1])
       IN Md5Rounds(<< st[4], Add32(st[2], Rotl32(f, Md5Shift[i + 1])),
                       st[2], st[3] >>,
                    M, i + 1)

\* the message, a 1 bit, zeros up to 56 mod 64, the bit length on 8 bytes
Md5Pad(bytes) ==
  LET n == Len(bytes)
      zeros == (119 - (n % 64)) % 64
      bits == 8 * n
  IN bytes \o << 128 >> \o [i \in 1 .. zeros |-> 0]
     \o << bits % 256, (bits \div 256) % 256, (bits \div Half) % 256,
           bits \div (256 * Half), 0, 0, 0, 0 >>

\* the k-th little-endian word of b, k from 0
Md5Word(b, k) ==
  << b[4 * k + 3] + 256 * b[4 * k + 4], b[4 * k + 1] + 256 * b[4 * k + 2] >>

Md5Init ==
  << <<26437, 8961>>, <<61389, 43913>>, <<39098, 56574>>, <<4146, 21622>> >>

RECURSIVE Md5Blocks(_, _, _)
Md5Blocks(st, b, k) ==
  IF 64 * k >= Len(b) THEN st
  ELSE LET M == [j \in 1 .. 16 |-> Md5Word(b, 16 * k + j - 1)]
           r == Md5Rounds(st, M, 0)
       IN Md5Blocks(<< Add32(st[1], r[1]), Add32(st[2], r[2]),
                       Add32(st[3], r[3]), Add32(st[4], r[4]) >>,
                    b, k + 1)

WordBytes(w) == << w[2] % 256, w[2] \div 256, w[1] % 256, w[1] \div 256 >>

\* hashlib.md5(bytes).digest(): 16 bytes
Md5(bytes) ==
  LET st == Md5Blocks(Md5Init, Md5Pad(bytes), 0)
  IN WordBytes(st[1]) \o WordBytes(st[2]) \o WordBytes(st[3]) \o WordBytes(st[4])

\* (h >> 8 * i) % 200 for h = int(hexdigest, 16), the integer whose big-endian
\* bytes are dg: h >> 8 * i is the integer of the first Len(dg) - i bytes
RECURSIVE ShiftMod(_, _)
ShiftMod(dg, k) ==
  IF k <= 0 THEN 0 ELSE (ShiftMod(dg, k - 1) * 256 + dg[k]) % 200

\* generate_simple_embedding without the guard of lines 392-393
generate_simple_embedding_unguarded(text, dimensions) ==
  LET dg == Md5(Encode(text))
  IN [i \in 1 .. dimensions |-> ShiftMod(dg, Len(dg) - (i - 1)) - 100]

\* embed with every component taken from the unshifted hash
embed_unshifted(self, text) ==
  IF text = <<>> THEN [i \in 1 .. self.dimensions |-> 0]
  ELSE LET hash_val == Md5(Encode(text))
       IN [i \in 1 .. self.dimensions |-> ShiftMod(hash_val, Len(hash_val)) - 100]

\* generate_simple_embedding, lines 387-404.  val is a whole number of
\* hundredths, which round(val, 3) returns as it is.
generate_simple_embedding(text, dimensions) ==
  IF text = <<>> THEN [i \in 1 .. dimensions |-> 0]
  ELSE LET dg == Md5(Encode(text))
       IN [i \in 1 .. dimensions |-> ShiftMod(dg, Len(dg) - (i - 1)) - 100]

\* HashEmbeddings.embed, embedding_integration.py lines 325-339; self is the
\* instance, [dimensions |-> n] after __init__ (line 321)
embed(self, text) ==
  IF text = <<>> THEN [i \in 1 .. self.dimensions |-> 0]
  ELSE LET hash_val == Md5(Encode(text))
       IN [i \in 1 .. self.dimensions |->
             ShiftMod(hash_val, Len(hash_val) - (i - 1)) - 100]

\* generate_content_embedding, lines 407-421
generate_content_embedding(p) ==
  LET NonEmpty(x) == x # <<>>
      content_parts == << p.title,
                          p.description,
                          Join(<<" ">>, p.headings["h1"]),
                          Join(<<" ">>, p.headings["h2"]),
                          Join(<<" ">>, Slice(p.paragraphs, 5)) >>
      content_text == Join(<<" ">>, SelectSeq(content_parts, NonEmpty))
  IN generate_simple_embedding(content_text, Dimensions)

(***************************************************************************)
(* WebsiteScanner                                                          *)
(*                                                                         *)
(* A document is [readable, rel_path, events]: whether open/read succeed,  *)
(* its path below base_path, and the parse events html.parser makes of its *)
(* text.  A dict with optional keys is a function on the keys present.     *)
(***************************************************************************)
EmptyDict == [k \in {} |-> k]
Opt(present, key, value) == IF present THEN key :> value ELSE EmptyDict

\* parser.feed(html_content): the handlers, event by event
RECURSIVE FeedEvents(_, _)
FeedEvents(p, events) ==
  IF events = <<>> THEN p
  ELSE LET e == Head(events)
           p2 == IF e.kind = "start" THEN handle_starttag(p, e.tag, e.attrs)
                 ELSE IF e.kind = "end" THEN handle_endtag(p, e.tag)
                 ELSE handle_data(p, e.text)
       IN FeedEvents(p2, Tail(events))

EvStart(tag, attrs) == [kind |-> "start", tag |-> tag, attrs |-> attrs, text |-> <<>>]
EvEnd(tag) == [kind |-> "end", tag |-> tag, attrs |-> <<>>, text |-> <<>>]
EvData(text) == [kind |-> "data", tag |-> "None", attrs |-> <<>>, text |-> text]

\* str(rel_path).replace("\\", "/")
ReplaceBackslash(s) == [i \in DOMAIN s |-> IF s[i] = "\\" THEN "/" ELSE s[i]]

\* Path.stem: the final component without its last suffix
Stem(path) ==
  LET name == SplitLast(path, "/")
      dots == { i \in DOMAIN name : name[i] = "." }
      i == IF dots = {} THEN 0 ELSE CHOOSE k \in dots : \A j \in dots : j <= k
  IN IF 1 < i /\ i < Len(name) THEN SubSeq(name, 1, i - 1) ELSE name

DescriptionMax == 200
TitleMax == 100

\* _process_page, lines 474-518, on the parser after feed and calculate_read_time;
\* keywords and embedding are what extract_keywords and
\* generate_content_embedding returned
build_page_data(p, rel_path, keywords, embedding) ==
  LET url == <<"/">> \o ReplaceBackslash(rel_path)
      content_type == detect_type(p, url)
  IN IF content_type.raised # "None" THEN [raised |-> content_type.raised]
     ELSE [ raised |-> "None",
            id |-> Stem(rel_path),
            url |-> url,
            type |-> content_type.value,
            title |-> p.title,
            description |-> IF p.description # <<>>
                            THEN Slice(p.description, DescriptionMax) ELSE <<>>,
            keywords |-> keywords,
            author |-> p.author,
            language |-> p.language,
            word_count |-> p.word_count,
            read_time |-> p.estimated_read_time,
            headings |-> [h \in { k \in HeadingTags : p.headings[k] # <<>> }
                            |-> p.headings[h]],
            links_count |-> Len(p.links),
            images_count |-> Len(p.images),
            videos_count |-> Len(p.videos),
            code_blocks_count |-> Len(p.code_blocks),
            has_structured_data |-> p.json_ld_data # <<>> \/ p.microdata_items # <<>>,
            schema_data |-> extract_schema_data(p, content_type.value),
            embedding |-> embedding ]
          @@ Opt(p.json_ld_data # <<>>, "json_ld", p.json_ld_data)

\* _process_page from line 474 on: the outcomes it can have for a document
\* found at one of rel_paths
page_outcomes(p, rel_paths) ==
  LET embedding == generate_content_embedding(p)
      keyword_lists == extract_keywords(p, MaxKeywords)
  IN { build_page_data(p, rel_path, keywords, embedding) :
         rel_path \in rel_paths, keywords \in keyword_lists }

\* _process_page: the outcomes it can have for a file
process_page(file) ==
  IF ~file.readable THEN { [raised |-> "UnicodeDecodeError"] }
  ELSE page_outcomes(calculate_read_time(FeedEvents(NewParser, file.events)),
                     { file.rel_path })

\* scan with the failing document kept in pages
ScanOne_keep_failed(pgs, r) == Append(pgs, r)

\* scan, lines 449-456, for one file whose _process_page ended as r: an
\* exception is printed and swallowed
ScanOne(pgs, r) ==
  IF r.raised = "None" THEN Append(pgs, r) ELSE pgs

NewSiteMetadata ==
  [ raised |-> "None", title |-> <<>>, description |-> <<>>, author |-> <<>>,
    content_types |-> <<>> ]

HomeUrls == { <<"/">>, <<"/","i","n","d","e","x",".","h","t","m","l">> }

\* Counter(p["type"] for p in pages) as <<type, count>> pairs in first-seen order
RECURSIVE CountTypes(_, _, _)
CountTypes(acc, pgs, i) ==
  IF i > Len(pgs) THEN acc
  ELSE CountTypes(DictSet(acc, pgs[i].type,
                          IF DictHas(acc, pgs[i].type)
                          THEN DictGet(acc, pgs[i].type) + 1 ELSE 1),
                  pgs, i + 1)

\* a list or a dict is not hashable
Unhashable(v) == v.kind \in {"array", "object"}

extract_site_metadata(meta, pgs) ==
  LET homes == { i \in DOMAIN pgs : pgs[i].url \in HomeUrls }
      m1 == IF homes = {} THEN meta
            ELSE LET h == pgs[CHOOSE i \in homes : \A j \in homes : i <= j]
                 IN [meta EXCEPT !.title = h.title,
                                 !.description = h.description,
                                 !.author = h.author]
  IN IF \E i \in DOMAIN pgs : Unhashable(pgs[i].type)
     THEN [m1 EXCEPT !.raised = "TypeError"]
     ELSE [m1 EXCEPT !.content_types = CountTypes(<<>>, pgs, 1)]

(***************************************************************************)
(* LLMRGenerator                                                           *)
(***************************************************************************)
\* compress_page with the "en" test of line 590 left out
compress_page_any_language(page) ==
  [ id |-> page.id, u |-> page.url, t |-> page.type,
    ti |-> Slice(page.title, TitleMax),
    d |-> Slice(page.description, DescriptionMax),
    kw |-> Slice(page.keywords, MaxKeywords),
    wc |-> page.word_count, rt |-> page.read_time,
    emb |-> page.embedding ]
  @@ Opt(page.author # <<>>, "a", page.author)
  @@ Opt(page.language # <<>>, "l", page.language)
  @@ Opt(page.has_structured_data, "sd", 1)
  @@ Opt(page.code_blocks_count > 0, "cb", page.code_blocks_count)
  @@ Opt("h1" \in DOMAIN page.headings,
         "h1", Slice(page.headings["h1"][1], TitleMax))

\* compress_page with the title cut at the description's length
compress_page_long_title(page) ==
  [ id |-> page.id, u |-> page.url, t |-> page.type,
    ti |-> Slice(page.title, DescriptionMax),
    d |-> Slice(page.description, DescriptionMax),
    kw |-> Slice(page.keywords, MaxKeywords),
    wc |-> page.word_count, rt |-> page.read_time,
    emb |-> page.embedding ]
  @@ Opt(page.author # <<>>, "a", page.author)
  @@ Opt(page.language # <<>> /\ page.language # s_en, "l", page.language)
  @@ Opt(page.has_structured_data, "sd", 1)
  @@ Opt(page.code_blocks_count > 0, "cb", page.code_blocks_count)
  @@ Opt("h1" \in DOMAIN page.headings,
         "h1", Slice(page.headings["h1"][1], TitleMax))

compress_page(page) ==
  [ id |-> page.id,
    u |-> page.url,
    t |-> page.type,
    ti |-> Slice(page.title, TitleMax),
    d |-> Slice(page.description, DescriptionMax),
    kw |-> Slice(page.keywords, MaxKeywords),
    wc |-> page.word_count,
    rt |-> page.read_time,
    emb |-> page.embedding ]
  @@ Opt(page.author # <<>>, "a", page.author)
  @@ Opt(page.language # <<>> /\ page.language # s_en, "l", page.language)
  @@ Opt(page.has_structured_data, "sd", 1)
  @@ Opt(page.code_blocks_count # 0 /\ page.code_blocks_count > 0,
         "cb", page.code_blocks_count)
  @@ Opt("h1" \in DOMAIN page.headings,
         "h1", Slice(page.headings["h1"][1], TitleMax))

compress_pages(pgs) == [i \in DOMAIN pgs |-> compress_page(pgs[i])]

\* generate_stats without the test of line 605: line 612 divides by len(pages)
generate_stats_unguarded(pgs) ==
  IF pgs = <<>> THEN Raise("ZeroDivisionError")
  ELSE Raise("NameError")

\* lines 603-619.  For a non-empty list the dict display is evaluated in
\* order and line 614 reads `page` in `sum(1 for p in pages if page.get(...))`:
\* the generator binds p, and `page` is bound neither in _generate_stats nor
\* at module level, so the first test raises NameError.
generate_stats(pgs) ==
  IF pgs = <<>> THEN Ok([total_pages |-> 0])
  ELSE Raise("NameError")

VERSION == <<"2",".","0">>

\* generate, lines 548-568, without the clock readings and the file write
generate(base_url, meta, pgs) ==
  LET stats == generate_stats(pgs)
  IN IF stats.raised # "None" THEN [raised |-> stats.raised]
     ELSE [ raised |-> "None",
            version |-> VERSION,
            site |-> [ title |-> meta.title,
                       description |-> meta.description,
                       author |-> meta.author,
                       base_url |-> base_url,
                       content_types |-> meta.content_types,
                       total_pages |-> Len(pgs) ],
            pages |-> compress_pages(pgs),
            stats |-> stats.value ]

(***************************************************************************)
(* History of a parse: which open element each chunk of current_content    *)
(* was received under, and which elements saw an end tag of their name.    *)
(* An element is named by the number of the event that opened it.          *)
(***************************************************************************)
NoEvent == [kind |-> "none", tag |-> "None", text |-> <<>>]

NewHist ==
  [ open_ids |-> <<>>,     \* parallel to tag_stack: the element of each entry
    open_entry |-> <<>>,   \* parallel to tag_stack: the index of the links or
                           \*   code_blocks entry the start tag appended, or 0
    buf_owner |-> <<>>,    \* parallel to current_content: 0 = under no element
    closed |-> {},         \* elements that saw an end tag of their name
    foreign |-> {},        \* elements whose text an end tag of another element
                           \*   put into a heading, paragraph, link or code text
    script_own |-> <<>> ]  \* the text received since the last <script> start


HistStart(h, tag, id) ==
  [h EXCEPT !.open_ids = Append(@, id),
            !.script_own = IF tag = "script" THEN <<>> ELSE @]

HistData(h, p, p2, data) ==
  [h EXCEPT
     !.buf_owner = IF Len(p2.current_content) > Len(p.current_content)
                   THEN Append(@, IF h.open_ids = <<>> THEN 0 ELSE Last(h.open_ids))
                   ELSE @,
     !.script_own = IF Len(p2.current_content) > Len(p.current_content)
                       /\ p.in_script # "False"
                    THEN Append(@, Strip(data)) ELSE @]

\* p is the parser before the start tag, p2 after it
HistEntry(h, p, p2) ==
  [h EXCEPT !.open_entry =
     Append(@, IF Len(p2.links) > Len(p.links) THEN Len(p2.links)
               ELSE IF Len(p2.code_blocks) > Len(p.code_blocks)
                 THEN Len(p2.code_blocks)
               ELSE 0)]

\* p is the parser before the end tag, p2 after it
HistEnd(h, p, p2, tag) ==
  LET popped == Len(p2.tag_stack) < Len(p.tag_stack)
      closer == IF popped THEN Last(h.open_ids) ELSE 0
      finalized == \/ p2.headings # p.headings
                   \/ p2.paragraphs # p.paragraphs
                   \/ p2.links # p.links
                   \/ p2.code_blocks # p.code_blocks
  IN [h EXCEPT
        !.open_ids = IF popped THEN ButLast(@) ELSE @,
        !.open_entry = IF popped THEN ButLast(@) ELSE @,
        !.closed = @ \cup { h.open_ids[i] : i \in { j \in DOMAIN h.open_ids :
                                                      p.tag_stack[j] = tag } },
        !.foreign = IF finalized
                    THEN @ \cup (SeqToSet(h.buf_owner) \ {closer})
                    ELSE @,
        !.buf_owner = IF p2.current_content = <<>> THEN <<>> ELSE @]

(***************************************************************************)
(* parser.feed: one step per parse event.  html.parser delivers start      *)
(* tags, end tags and text in document order; inside <script> and <style>  *)
(* (CDATA_CONTENT_ELEMENTS) it delivers only text until the end tag of     *)
(* that element.                                                           *)
(***************************************************************************)
MaxEvents == 5

StartTag(tag, attrs) ==
  /\ phase = "parsing"
  /\ nevents < MaxEvents
  /\ cdata_elem = "None"
  /\ parser' = handle_starttag(parser, tag, attrs)
  /\ cdata_elem' = IF tag \in {"script", "style"} THEN tag ELSE "None"
  /\ hist' = HistEntry(HistStart(hist, tag, nevents + 1), parser, parser')
  /\ last_event' = [kind |-> "start", tag |-> tag, text |-> <<>>]
  /\ nevents' = nevents + 1
  /\ UNCHANGED << phase, siteVars >>

EndTag(tag) ==
  /\ phase = "parsing"
  /\ nevents < MaxEvents
  /\ cdata_elem \in {"None", tag}
  /\ parser' = handle_endtag(parser, tag)
  /\ cdata_elem' = "None"
  /\ hist' = HistEnd(hist, parser, parser', tag)
  /\ last_event' = [kind |-> "end", tag |-> tag, text |-> <<>>]
  /\ nevents' = nevents + 1
  /\ UNCHANGED << phase, siteVars >>

Data(data) ==
  /\ phase = "parsing"
  /\ nevents < MaxEvents
  /\ parser' = handle_data(parser, data)
  /\ hist' = HistData(hist, parser, parser', data)
  /\ last_event' = [kind |-> "data", tag |-> "None", text |-> data]
  /\ nevents' = nevents + 1
  /\ UNCHANGED << cdata_elem, phase, siteVars >>

\* _process_page, line 472: the end of the document
Finish ==
  /\ phase = "parsing"
  /\ parser' = calculate_read_time(parser)
  /\ phase' = "parsed"
  /\ last_event' = NoEvent
  /\ UNCHANGED << cdata_elem, nevents, hist, siteVars >>

NoPage == [raised |-> "None"]
NoCall == [fn |-> "None"]
NoReturn == [k \in {} |-> k]
NoOutput == [raised |-> "None"]

InitParse ==
  /\ parser = NewParser
  /\ cdata_elem = "None"
  /\ phase = "parsing"
  /\ nevents = 0
  /\ last_event = NoEvent
  /\ hist = NewHist
  /\ page_data = NoPage
  /\ compressed = <<>>
  /\ html_files = <<>>
  /\ pages = <<>>
  /\ site_metadata = NewSiteMetadata
  /\ llmr_data = NoOutput
  /\ args = NoCall
  /\ returned = NoReturn

ParseStep(Starts, Ends, Datas) ==
  \/ \E e \in Starts : StartTag(e[1], e[2])
  \/ \E t \in Ends : EndTag(t)
  \/ \E d \in Datas : Data(d)

(***************************************************************************)
(* Spec: documents over paragraphs, headings and anchors                   *)
(***************************************************************************)
StartsBody == { << "p", <<>> >>, << "h1", <<>> >>,
                << "a", << << "href", <<"/","u">> >> >> >> }
EndsBody == {"p", "h1", "a"}
DataBody == { <<"x">>, <<" ","y"," ","z"," ">> }

Init == InitParse
Next == ParseStep(StartsBody, EndsBody, DataBody) \/ Finish
Spec == Init /\ [][Next]_vars

(***************************************************************************)
(* SpecAnchor: documents over anchors with and without an href             *)
(***************************************************************************)
StartsAnchor == { << "a", << << "href", <<"/","u">> >> >> >>,
                  << "a", << << "name", <<"n">> >> >> >> }
EndsAnchor == {"a"}
DataAnchor == { <<"x">>, <<"y">> }

NextAnchor == ParseStep(StartsAnchor, EndsAnchor, DataAnchor) \/ Finish
SpecAnchor == InitParse /\ [][NextAnchor]_vars

(***************************************************************************)
(* SpecCode: documents over pre and code elements                          *)
(***************************************************************************)
StartsCode == { << "pre", <<>> >>, << "code", <<>> >> }
EndsCode == {"pre", "code"}
DataCode == { <<"x">>, <<"y">> }

NextCode == ParseStep(StartsCode, EndsCode, DataCode) \/ Finish
SpecCode == InitParse /\ [][NextCode]_vars

(***************************************************************************)
(* SpecInline: paragraphs holding inline and void elements                 *)
(***************************************************************************)
StartsInline == { << "p", <<>> >>, << "b", <<>> >>,
                  << "img", << << "src", <<"i">> >> >> >> }
EndsInline == {"p", "b"}
DataInline == { <<"x">>, <<"y">> }

NextInline == ParseStep(StartsInline, EndsInline, DataInline) \/ Finish
SpecInline == InitParse /\ [][NextInline]_vars

(***************************************************************************)
(* SpecScript: documents over paragraphs and script elements               *)
(***************************************************************************)
StartsScript == { << "p", <<>> >>,
                  << "script", <<>> >>,
                  << "script", << << "type", s_ld_json >> >> >> }
EndsScript == {"p", "script"}
DataScript == { <<"[">>, <<"]">>, <<"5">>, <<"{","i","n","v","a","l","i","d">> }

NextScript == ParseStep(StartsScript, EndsScript, DataScript) \/ Finish
SpecScript == InitParse /\ [][NextScript]_vars

(***************************************************************************)
(* SpecMeta: documents over <title> and the meta tags of the rule table    *)
(***************************************************************************)
MetaTag(key, name, content) ==
  << "meta", << << key, name >>, << "content", content >> >> >>

StartsMeta ==
  { << "title", <<>> >>,
    MetaTag("property", s_og_title, <<"O","1">>),
    MetaTag("property", s_og_title, <<"O","2">>),
    MetaTag("name", s_description, <<"d","1">>),
    MetaTag("property", s_og_description, <<"d","2">>),
    MetaTag("name", s_author, <<"a","1">>),
    MetaTag("property", s_article_author, <<"a","2">>),
    MetaTag("name", s_keywords, <<"k","1">>),
    MetaTag("name", s_keywords, <<"k","2",","," ","k","3">>) }
EndsMeta == {"title"}
DataMeta == { <<"T","1">>, <<"T","2">> }

NextMeta == ParseStep(StartsMeta, EndsMeta, DataMeta) \/ Finish
SpecMeta == InitParse /\ [][NextMeta]_vars

(***************************************************************************)
(* SpecPage: one document, fed fragment by fragment, then the rest of      *)
(* _process_page and _compress_pages on its page                           *)
(***************************************************************************)
Rep(c, n) == [i \in 1 .. n |-> c]

Element(tag, attrs, text) == << EvStart(tag, attrs), EvData(text), EvEnd(tag) >>
Meta(key, name, content) ==
  << EvStart("meta", << << key, name >>, << "content", content >> >>) >>
LdJson(text) == Element("script", << << "type", s_ld_json >> >>, text)

Fragments ==
  { << EvStart("html", << << "lang", <<"f","r">> >> >>) >>,
    << EvStart("html", << << "lang", s_en >> >>) >>,
    Meta("name", s_author, <<"A","l">>),
    Meta("name", s_description, Rep("y", DescriptionMax + 1)),
    Meta("property", s_og_description, <<"A","b","o","u","t"," ","u","s">>),
    Meta("property", s_og_type, <<"w","e","b","s","i","t","e">>),
    Element("title", <<>>, Rep("x", TitleMax + 1)),
    Element("title", <<>>, <<"T">>),
    Element("h1", <<>>, Rep("h", TitleMax + 1)),
    Element("p", <<>>, <<"b","l","o","g"," ","p","o","s","t">>),
    Element("code", <<>>, <<"c">>),
    << EvStart("div", << << "itemscope", <<>> >>,
                         << "itemtype", <<"h","t","t","p",":","/","/","s","c","h","e","m","a",".","o","r","g","/","P","r","o","d","u","c","t">> >> >>) >>,
    LdJson(<<"{","\"","@","t","y","p","e","\"",":","\"","A","r","t","i","c","l","e","\"","}">>),
    LdJson(<<"{","\"","@","t","y","p","e","\"",":","[","\"","A","r","t","i","c","l","e","\"",",","\"","B","l","o","g","P","o","s","t","i","n","g","\"","]","}">>),
    LdJson(<<"{","\"","h","e","a","d","l","i","n","e","\"",":","\"","H","\"","}">>),
    LdJson(<<"5">>) }

PagePaths == { <<"i","n","d","e","x",".","h","t","m","l">>,
               <<"d","o","c","s","/","x",".","h","t","m","l">> }

MaxFragments == 3

FeedFragment(f) ==
  /\ phase = "parsing"
  /\ nevents < MaxFragments
  /\ parser' = FeedEvents(parser, f)
  /\ nevents' = nevents + 1
  /\ UNCHANGED << cdata_elem, phase, last_event, hist, siteVars >>

\* _process_page after calculate_read_time
ProcessPage ==
  /\ phase = "parsed"
  /\ page_data' \in page_outcomes(parser, PagePaths)
  /\ phase' = "processed"
  /\ UNCHANGED << args, returned, parser, cdata_elem, nevents, last_event, hist, compressed,
                  html_files, pages, site_metadata, llmr_data >>

\* scan keeps the page unless _process_page raised; generate compresses it
CompressPage ==
  /\ phase = "processed"
  /\ pages' = IF page_data.raised = "None" THEN << page_data >> ELSE <<>>
  /\ compressed' = compress_pages(pages')
  /\ phase' = "compressed"
  /\ UNCHANGED << args, returned, parser, cdata_elem, nevents, last_event, hist, page_data,
                  html_files, site_metadata, llmr_data >>

NextPage ==
  \/ \E f \in Fragments : FeedFragment(f)
  \/ Finish
  \/ ProcessPage
  \/ CompressPage
SpecPage == InitParse /\ [][NextPage]_vars

(***************************************************************************)
(* SpecSite: scan over the documents found, then generate                  *)
(***************************************************************************)
Doc(readable, rel_path, events) ==
  [readable |-> readable, rel_path |-> rel_path, events |-> events]

Documents ==
  { Doc(TRUE, <<"i","n","d","e","x",".","h","t","m","l">>,
        Element("title", <<>>, <<"H","o","m","e">>) \o Element("p", <<>>, <<"x"," ","y">>)),
    Doc(TRUE, <<"a",".","h","t","m","l">>,
        << EvStart("pre", <<>>), EvStart("code", <<>>), EvData(<<"c">>),
           EvEnd("code"), EvEnd("pre") >>),
    Doc(TRUE, <<"b",".","h","t","m","l">>, LdJson(<<"5">>)),
    Doc(TRUE, <<"c",".","h","t","m","l">>,
        LdJson(<<"{","\"","@","t","y","p","e","\"",":","[","[","]","]","}">>)),
    Doc(FALSE, <<"d",".","h","t","m","l">>, <<>>) }

BaseUrl == <<"/","s","i","t","e">>

MaxFiles == 3

InitSite ==
  /\ html_files \in { fs \in UNION { [1 .. n -> Documents] : n \in 0 .. MaxFiles } :
                       \A i, j \in DOMAIN fs : i # j => fs[i] # fs[j] }
  /\ parser = NewParser
  /\ cdata_elem = "None"
  /\ phase = "scanning"
  /\ nevents = 0
  /\ last_event = NoEvent
  /\ hist = NewHist
  /\ page_data = NoPage
  /\ compressed = <<>>
  /\ pages = <<>>
  /\ site_metadata = NewSiteMetadata
  /\ llmr_data = NoOutput
  /\ args = NoCall
  /\ returned = NoReturn

\* scan, lines 449-456: the next file
ScanFile ==
  /\ phase = "scanning"
  /\ nevents < Len(html_files)
  /\ \E r \in process_page(html_files[nevents + 1]) :
        /\ page_data' = r
        /\ pages' = ScanOne(pages, r)
  /\ nevents' = nevents + 1
  /\ UNCHANGED << args, returned, parser, cdata_elem, phase, last_event, hist, compressed,
                  html_files, site_metadata, llmr_data >>

\* scan, line 459: outside the try, so an exception here ends the run
ExtractSiteMetadata ==
  /\ phase = "scanning"
  /\ nevents = Len(html_files)
  /\ site_metadata' = extract_site_metadata(site_metadata, pages)
  /\ phase' = IF site_metadata'.raised = "None" THEN "scanned" ELSE "crashed"
  /\ UNCHANGED << args, returned, parser, cdata_elem, nevents, last_event, hist, page_data,
                  compressed, html_files, pages, llmr_data >>

\* main, line 758
Generate ==
  /\ phase = "scanned"
  /\ llmr_data' = generate(BaseUrl, site_metadata, pages)
  /\ phase' = "generated"
  /\ UNCHANGED << args, returned, parser, cdata_elem, nevents, last_event, hist, page_data,
                  compressed, html_files, pages, site_metadata >>

NextSite == ScanFile \/ ExtractSiteMetadata \/ Generate
SpecSite == InitSite /\ [][NextSite]_vars

(***************************************************************************)
(* Direct calls: the arguments are drawn at the start, then each callee    *)
(* returns once                                                            *)
(***************************************************************************)
InitCall(Args) ==
  /\ args \in Args
  /\ returned = NoReturn
  /\ phase = "call"
  /\ parser = NewParser
  /\ cdata_elem = "None"
  /\ nevents = 0
  /\ last_event = NoEvent
  /\ hist = NewHist
  /\ page_data = NoPage
  /\ compressed = <<>>
  /\ html_files = <<>>
  /\ pages = <<>>
  /\ site_metadata = NewSiteMetadata
  /\ llmr_data = NoOutput

Return(fn, value) ==
  /\ phase = "call"
  /\ fn \notin DOMAIN returned
  /\ returned' = returned @@ (fn :> value)
  /\ UNCHANGED << parser, cdata_elem, phase, nevents, last_event, hist,
                  page_data, compressed, html_files, pages, site_metadata,
                  llmr_data, args >>

(***************************************************************************)
(* SpecEmbed: generate_simple_embedding and HashEmbeddings.embed on a text *)
(* and a dimension count                                                   *)
(***************************************************************************)
EmbedTexts ==
  { <<>>, <<"a">>, <<"a","b","c">>, <<"b","l","o","g"," ","p","o","s","t">>,
    <<"H","e","l","l","o",","," ","W","o","r","l","d","!">>, Rep("x", 56) }

MaxDimensions == 18

InitEmbed ==
  InitCall({ [text |-> t, dimensions |-> d] :
               t \in EmbedTexts, d \in 0 .. MaxDimensions })

GenerateSimpleEmbedding ==
  Return("generate_simple_embedding",
         generate_simple_embedding(args.text, args.dimensions))

Embed == Return("embed", embed([dimensions |-> args.dimensions], args.text))

NextEmbed == GenerateSimpleEmbedding \/ Embed
SpecEmbed == InitEmbed /\ [][NextEmbed]_vars

(***************************************************************************)
(* SpecKeywords: extract_keywords on a parsed document and a limit         *)
(***************************************************************************)
DeclaredKeywords ==
  { <<>>,
    << <<"s","e","o">> >>,
    << <<"s","e","o">>, <<"s","e","o">>, <<"b","l","o","g">> >>,
    << <<"B","l","o","g">>, <<"w","e","b">>, <<"s","e","o">> >> }

KeywordTitles == { <<>>, <<"T","h","e"," ","B","l","o","g">> }

KeywordParagraphs ==
  { <<>>,
    << <<"a"," ","c","a","t"," ","a","n","d"," ","a"," ","d","o","g","2">> >>,
    << <<"p","o","s","t"," ","b","l","o","g"," ","p","o","s","t">>,
       <<"d","o","n","'","t"," ","g","e","t"," ","c","a","t","s",","," ","b","l","o","g">> >> }

MaxLimit == 3

InitKeywords ==
  InitCall({ [parser |-> [NewParser EXCEPT !.keywords = k, !.title = t,
                                            !.paragraphs = ps],
              max_keywords |-> n] :
               k \in DeclaredKeywords, t \in KeywordTitles,
               ps \in KeywordParagraphs, n \in 0 .. MaxLimit })

ExtractKeywords ==
  /\ "extract_keywords" \notin DOMAIN returned
  /\ \E r \in extract_keywords(args.parser, args.max_keywords) :
        Return("extract_keywords", r)

NextKeywords == ExtractKeywords
SpecKeywords == InitKeywords /\ [][NextKeywords]_vars

(***************************************************************************)
(* SpecDetect: detect_type on a parsed document and its URL                *)
(***************************************************************************)
DetectTitles == { <<>>, <<"P","r","e","s","s"," ","k","i","t">>, <<"O","u","r"," ","G","u","i","d","e"," ","p","a","g","e">> }
DetectH1 == { <<>>, << <<"W","e","l","c","o","m","e">> >>, << <<"O","n","e">>, <<"T","w","o">>, <<"T","h","r","e","e">>, <<"O","u","r"," ","S","h","o","p">> >> }
DetectParagraphs == { <<>>, << <<"R","e","a","d"," ","t","h","e"," ","F","A","Q">> >>, << <<"a">>, <<"b">>, <<"c">>, <<"c","o","n","t","a","c","t"," ","u","s">> >> }
DetectUrls == { <<"/","i","n","d","e","x",".","h","t","m","l">>, <<"/","e","v","e","n","t","s","/","x",".","h","t","m","l">>, <<"/","d","o","c","s","/","H","o","w","T","o",".","h","t","m","l">> }

InitDetect ==
  InitCall({ [parser |-> [NewParser EXCEPT !.title = t, !.headings["h1"] = h,
                                            !.paragraphs = ps,
                                            !.has_og_type = og,
                                            !.og_type = IF og THEN <<"w","e","b","s","i","t","e">> ELSE <<>>],
              url |-> u] :
               t \in DetectTitles, h \in DetectH1, ps \in DetectParagraphs,
               u \in DetectUrls, og \in BOOLEAN })

DetectType == Return("detect_type", detect_type(args.parser, args.url))

NextDetect == DetectType
SpecDetect == InitDetect /\ [][NextDetect]_vars

(***************************************************************************)
(* SpecSchema: extract_schema_data on the JSON-LD values of a document     *)
(***************************************************************************)
SchemaJsonLd ==
  { JObj(<< << <<"h","e","a","d","l","i","n","e">>, JStr(<<"H","1">>) >>, << <<"a","u","t","h","o","r">>, JStr(<<"A","1">>) >> >>),
    JObj(<< << <<"h","e","a","d","l","i","n","e">>, JStr(<<"H","2">>) >> >>),
    JObj(<< << <<"i","m","a","g","e">>, JStr(<<"I">>) >> >>),
    JObj(<< << <<"a","u","t","h","o","r">>, JStr(<<"A","2">>) >>, << <<"d","a","t","e","P","u","b","l","i","s","h","e","d">>, JStr(<<"D">>) >> >>),
    JStr(<<"s">>) }
MaxJsonLd == 3
SchemaAuthors == { <<>>, <<"B","a","s","e">> }

InitSchema ==
  InitCall({ [parser |-> [NewParser EXCEPT !.json_ld_data = lds, !.author = a],
              content_type |-> JStr(s_WebPage)] :
               lds \in UNION { [1..n -> SchemaJsonLd] : n \in 0..MaxJsonLd },
               a \in SchemaAuthors })

ExtractSchemaData ==
  Return("extract_schema_data",
         extract_schema_data(args.parser, args.content_type))

NextSchema == ExtractSchemaData
SpecSchema == InitSchema /\ [][NextSchema]_vars

(***************************************************************************)
(* Claims                                                                  *)
(***************************************************************************)

\* C1: at the end of the document, no heading, paragraph, link text or code
\* text finalized by the end tag of one element holds text that was received
\* under another capturing element which never saw an end tag of its own.
C1_UnclosedTextDiscarded ==
  phase = "parsed" => hist.foreign \subseteq hist.closed

\* C2: an end tag whose name is not the top of tag_stack when it arrives
\* appends nothing to headings or paragraphs and leaves word_count alone.
C2_MismatchedCloseAppendsNothing ==
  [][ ( /\ last_event'.kind = "end"
        /\ ~(parser.tag_stack # <<>> /\ Last(parser.tag_stack) = last_event'.tag) )
      => ( /\ parser'.headings = parser.headings
           /\ parser'.paragraphs = parser.paragraphs
           /\ parser'.word_count = parser.word_count ) ]_vars

\* C3: the end tag of an application/ld+json script whose own text is not
\* valid JSON adds no entry to json_ld_data and leaves capture mode with an
\* empty content buffer.
C3_InvalidJsonLdDropped ==
  [][ ( /\ last_event'.kind = "end"
        /\ last_event'.tag = "script"
        /\ parser.in_script = "json-ld"
        /\ hist.script_own # <<>>
        /\ ~JsonLoads(Join(<<" ">>, hist.script_own)).ok )
      => ( /\ parser'.json_ld_data = parser.json_ld_data
           /\ parser'.in_script = "False"
           /\ parser'.current_content = <<>> ) ]_vars

\* C4: for a non-empty page collection the stats of generate hold
\* pages_with_code = the number of pages with code_blocks_count > 0 and
\* pages_with_structured_data = the number of pages flagged has_structured_data.
C4_StatsCountPages ==
  (phase = "generated" /\ pages # <<>>) =>
     /\ llmr_data.raised = "None"
     /\ llmr_data.stats.pages_with_code =
          Cardinality({ i \in DOMAIN pages : pages[i].code_blocks_count > 0 })
     /\ llmr_data.stats.pages_with_structured_data =
          Cardinality({ i \in DOMAIN pages : pages[i].has_structured_data })

CeilDiv(n, d) == (n + d - 1) \div d

\* C5: after calculate_read_time, estimated_read_time is
\* max(1, ceil(word_count / 200)); with no paragraph it is 1.
C5_ReadTimeRoundedUpMinOne ==
  phase = "parsed" =>
    parser.estimated_read_time = Max(1, CeilDiv(parser.word_count, WordsPerMinute))

\* the collected JSON-LD objects that have an @type key
TypedObjects ==
  { i \in DOMAIN parser.json_ld_data :
      /\ parser.json_ld_data[i].kind = "object"
      /\ DictHas(parser.json_ld_data[i].members, s_at_type) }
FirstAtType ==
  DictGet(parser.json_ld_data[CHOOSE i \in TypedObjects :
                                \A j \in TypedObjects : i <= j].members,
          s_at_type)

\* C6: when some collected JSON-LD object has an @type key, detect_type
\* returns the @type value of the first such object, or the first element of
\* that value when it is a (non-empty) list.
C6_TypeOfFirstTypedObject ==
  ( /\ phase = "processed"
    /\ TypedObjects # {}
    /\ ~(FirstAtType.kind = "array" /\ FirstAtType.items = <<>>) )
  => /\ page_data.raised = "None"
     /\ page_data.type = IF FirstAtType.kind = "array"
                         THEN FirstAtType.items[1] ELSE FirstAtType

\* the rules of the cascade, as the claim names them
RuleJsonLd == TypedObjects # {}
RuleMicrodata == \E i \in DOMAIN parser.microdata_items :
                    parser.microdata_items[i].type # <<>>
RuleOpenGraph == parser.has_og_type
RuleKeyword ==
  \E t \in DOMAIN SCHEMA_TYPES : \E k \in DOMAIN SCHEMA_TYPES[t][2] :
     \/ Contains(SCHEMA_TYPES[t][2][k], Lower(page_data.url))
     \/ Contains(SCHEMA_TYPES[t][2][k], ContentText(parser))
KeywordTypeNames == { SCHEMA_TYPES[t][1] : t \in DOMAIN SCHEMA_TYPES }

CascadeOrder ==
  /\ RuleJsonLd =>
       page_data.type = IF FirstAtType.kind = "array" /\ FirstAtType.items # <<>>
                        THEN FirstAtType.items[1] ELSE FirstAtType
  /\ (~RuleJsonLd /\ RuleMicrodata) =>
       \E i \in DOMAIN parser.microdata_items :
          page_data.type = JStr(SplitLast(parser.microdata_items[i].type, "/"))
  /\ (~RuleJsonLd /\ ~RuleMicrodata /\ RuleOpenGraph) =>
       page_data.type = JStr(parser.og_type)
  /\ (~RuleJsonLd /\ ~RuleMicrodata /\ ~RuleOpenGraph /\ RuleKeyword) =>
       /\ page_data.type.kind = "string"
       /\ page_data.type.str \in KeywordTypeNames
  /\ (~RuleJsonLd /\ ~RuleMicrodata /\ ~RuleOpenGraph /\ ~RuleKeyword) =>
       page_data.type = JStr(s_WebPage)

\* C7: detect_type returns the result of the first applicable rule in the
\* order JSON-LD @type, microdata type, Open Graph type, keyword table, and
\* "WebPage" when no rule applies.
C7_CascadeFirstRuleWins ==
  phase = "processed" => (page_data.raised = "None" /\ CascadeOrder)

\* The cascade order holds of every call of detect_type that returns.
CascadeWhenReturned ==
  (phase = "processed" /\ page_data.raised = "None") => CascadeOrder
TypeWhenReturned ==
  ( /\ phase = "processed"
    /\ page_data.raised = "None"
    /\ TypedObjects # {} )
  => page_data.type = IF FirstAtType.kind = "array"
                      THEN FirstAtType.items[1] ELSE FirstAtType

IsPrefix(s, t) == Len(s) <= Len(t) /\ \A i \in DOMAIN s : s[i] = t[i]

\* C8: in a PageSummary an optional key is present iff its value is present
\* and not the default, and never holds an empty value: a (author), l
\* (language other than "en"), sd (a JSON-LD value or a microdata item), cb
\* (code_blocks_count > 0), h1 (an h1 heading was finalized).
C8_OptionalKeysIffPresent ==
  (phase = "compressed" /\ compressed # <<>>) =>
    LET s == compressed[1]
        keys == DOMAIN s
    IN /\ ("a" \in keys <=> parser.author # <<>>)
       /\ ("l" \in keys <=> (parser.language # <<>> /\ parser.language # s_en))
       /\ ("sd" \in keys <=> (parser.json_ld_data # <<>> \/ parser.microdata_items # <<>>))
       /\ ("cb" \in keys <=> page_data.code_blocks_count > 0)
       /\ ("h1" \in keys <=> parser.headings["h1"] # <<>>)
       /\ ("a" \in keys => s.a = parser.author /\ s.a # <<>>)
       /\ ("l" \in keys => s.l = parser.language /\ s.l # <<>>)
       /\ ("sd" \in keys => s.sd = 1)
       /\ ("cb" \in keys => s.cb = Len(parser.code_blocks) /\ s.cb > 0)
       /\ ("h1" \in keys => s.h1 # <<>>)
       /\ keys \subseteq {"id", "u", "t", "ti", "d", "kw", "wc", "rt", "emb",
                          "a", "l", "sd", "cb", "h1"}

C8_Witness ==
  /\ phase = "compressed"
  /\ compressed # <<>>
  /\ {"a", "l", "h1"} \subseteq DOMAIN compressed[1]
  /\ {"sd", "cb"} \cap DOMAIN compressed[1] = {}

\* C9: ti is the first 100 characters of the title and d the first 200 of
\* the description: a longer value is cut to exactly that length, a shorter
\* one is unchanged.
C9_TitleAndDescriptionCut ==
  (phase = "compressed" /\ compressed # <<>>) =>
    LET s == compressed[1]
    IN /\ Len(parser.title) > TitleMax =>
            (Len(s.ti) = TitleMax /\ IsPrefix(s.ti, parser.title))
       /\ Len(parser.title) <= TitleMax => s.ti = parser.title
       /\ Len(parser.description) > DescriptionMax =>
            (Len(s.d) = DescriptionMax /\ IsPrefix(s.d, parser.description))
       /\ Len(parser.description) <= DescriptionMax => s.d = parser.description

C9_Witness ==
  /\ phase = "compressed"
  /\ compressed # <<>>
  /\ Len(parser.title) > TitleMax
  /\ Len(parser.description) > DescriptionMax
  /\ Len(compressed[1].ti) = TitleMax
  /\ Len(compressed[1].d) = DescriptionMax

\* C10: when no page is collected, generate returns site.total_pages = 0 and
\* a stats object that is exactly {"total_pages": 0}, and raises nothing.
C10_NoPagesStats ==
  (phase = "generated" /\ pages = <<>>) =>
     /\ llmr_data.raised = "None"
     /\ llmr_data.site.total_pages = 0
     /\ DOMAIN llmr_data.stats = {"total_pages"}
     /\ llmr_data.stats.total_pages = 0
     /\ llmr_data.pages = <<>>

C10_Witness ==
  /\ phase = "generated"
  /\ pages = <<>>
  /\ llmr_data.raised = "None"
  /\ llmr_data.stats = [total_pages |-> 0]

\* _process_page returns for this file (the keyword order aside, its outcome
\* is determined by the file)
Succeeds(file) == \A r \in process_page(file) : r.raised = "None"

\* C11: a document whose processing raises adds nothing to pages and does not
\* end the loop: the scan leaves the loop only after the last file, and pages
\* holds, in traversal order, one page per processed file whose processing
\* returned.
C11_FailedDocumentSkipped ==
  LET kept == SelectSeq(SubSeq(html_files, 1, nevents), Succeeds)
  IN /\ phase # "scanning" => nevents = Len(html_files)
     /\ Len(pages) = Len(kept)
     /\ \A k \in DOMAIN pages : pages[k] \in process_page(kept[k])

\* a failing document was followed by one that was processed and kept
C11_Witness ==
  /\ phase = "scanned"
  /\ \E i, j \in 1 .. nevents :
        /\ i < j
        /\ ~Succeeds(html_files[i])
        /\ Succeeds(html_files[j])
        /\ pages # <<>>
        /\ Last(pages).id = Stem(html_files[j].rel_path)

\* C12: processing the document a second time gives the page the first run
\* gave: every outcome of _process_page on the same parse and the same path
\* equals the recorded one, in type, keyword list (elements and order) and
\* embedding.
C12_ReprocessingAgrees ==
  (phase = "processed" /\ page_data.raised = "None")
    => \A r \in page_outcomes(parser, PagePaths) :
         (r.raised = "None" /\ r.url = page_data.url) => r = page_data

\* C13: for the empty text both hash embeddings return `dimensions`
\* components (16 when the default is used), every one of them 0.
C13_EmptyTextZeroVector ==
  args.text = <<>>
    => \A fn \in DOMAIN returned :
         /\ Len(returned[fn]) = args.dimensions
         /\ \A i \in DOMAIN returned[fn] : returned[fn][i] = 0

\* both were called on the empty text with the default dimension count
C13_Witness ==
  /\ args.text = <<>>
  /\ args.dimensions = Dimensions
  /\ DOMAIN returned = {"generate_simple_embedding", "embed"}
  /\ Len(returned["embed"]) = Dimensions

\* x % 25 for the integer x whose big-endian bytes are the first k bytes of dg
\* (256 % 25 = 6)
RECURSIVE Mod25(_, _)
Mod25(dg, k) ==
  IF k <= 0 THEN 0 ELSE ((Mod25(dg, k - 1) % 25) * 6 + (dg[k] % 25)) % 25

\* ((h >> 8 * i) mod 200 - 100) in hundredths, h the integer whose big-endian
\* bytes are dg: the residue mod 200 is fixed by the residues mod 8 (the low
\* three bits of the lowest byte left) and mod 25
HashComponent(dg, i) ==
  LET k == Len(dg) - i
      m8 == IF k <= 0 THEN 0 ELSE dg[k] % 8
      m25 == Mod25(dg, k)
  IN (CHOOSE r \in 0 .. 199 : r % 8 = m8 /\ r % 25 = m25) - 100

\* C14: for a non-empty text and any dimension count d, also d > 16, each hash
\* embedding has exactly d components, component i (from 0) is
\* ((h >> 8 * i) mod 200 - 100) / 100 for the MD5 integer h of the text and
\* lies in [-1, 1], and the two functions return the same vector.
C14_HashEmbeddingComponents ==
  args.text # <<>>
    => /\ \A fn \in DOMAIN returned :
            /\ Len(returned[fn]) = args.dimensions
            /\ \A i \in DOMAIN returned[fn] :
                  /\ returned[fn][i] = HashComponent(Md5(Encode(args.text)), i - 1)
                  /\ -100 <= returned[fn][i]
                  /\ returned[fn][i] <= 100
       /\ \A f, g \in DOMAIN returned : returned[f] = returned[g]

\* both were called with more components than the hash has bytes
C14_Witness ==
  /\ args.text # <<>>
  /\ args.dimensions > 16
  /\ DOMAIN returned = {"generate_simple_embedding", "embed"}
  /\ returned["embed"][1] # returned["embed"][2]
  /\ returned["embed"][17] = -100

\* the non-stop-word lowercase alphabetic tokens of length >= 3 of the title,
\* description, h1, h2 and paragraph text of p, in order
ExtractedTokens(p) ==
  LET text == Join(<<" ">>, << p.title, p.description,
                               Join(<<" ">>, p.headings["h1"]),
                               Join(<<" ">>, p.headings["h2"]),
                               Join(<<" ">>, p.paragraphs) >>)
      Kept(w) == w \notin STOP_WORDS
  IN SelectSeq(FindWords(Lower(text)), Kept)

\* the n most frequent of the tokens ws, equal counts by first occurrence: the
\* tokens that fewer than n others precede
TopTokens(ws, n) ==
  LET First(w) == CHOOSE i \in DOMAIN ws : ws[i] = w /\ \A j \in 1 .. (i - 1) : ws[j] # w
      Precedes(v, w) == \/ CountOf(ws, v) > CountOf(ws, w)
                        \/ CountOf(ws, v) = CountOf(ws, w) /\ First(v) < First(w)
  IN { w \in SeqToSet(ws) :
         Cardinality({ v \in SeqToSet(ws) : Precedes(v, w) }) < n }

\* C15: extract_keywords with limit N returns at most N entries without
\* duplicates, each a declared keyword or one of the top-N extracted tokens;
\* it returns the union of the two sets cut to N, so every declared keyword
\* is present unless the union has more than N elements.
C15_KeywordsUnionTruncated ==
  \A fn \in DOMAIN returned :
    LET r == returned[fn]
        N == args.max_keywords
        declared == SeqToSet(args.parser.keywords)
        both == declared \cup TopTokens(ExtractedTokens(args.parser), N)
    IN /\ Len(r) <= N
       /\ \A i, j \in DOMAIN r : i # j => r[i] # r[j]
       /\ SeqToSet(r) \subseteq both
       /\ Len(r) = Min(N, Cardinality(both))
       /\ Cardinality(both) <= N => declared \subseteq SeqToSet(r)

\* declared and extracted keywords together exceed the limit, and the list
\* returned holds one of each kind while a declared keyword is missing
C15_Witness ==
  /\ "extract_keywords" \in DOMAIN returned
  /\ LET r == returned["extract_keywords"]
         declared == SeqToSet(args.parser.keywords)
     IN /\ Len(r) = args.max_keywords
        /\ \E k \in declared : k \notin SeqToSet(r)
        /\ \E k \in declared : k \in SeqToSet(r)
        /\ \E w \in SeqToSet(r) : w \notin declared

\* C16: an end tag removes the top of tag_stack, and nothing else, when the
\* top is the tag closed; with an empty stack or another tag on top it leaves
\* tag_stack as it is.
C16_EndTagPopsMatchingTop ==
  [][ last_event'.kind = "end"
      => IF parser.tag_stack # <<>> /\ Last(parser.tag_stack) = last_event'.tag
         THEN parser'.tag_stack = ButLast(parser.tag_stack)
         ELSE parser'.tag_stack = parser.tag_stack ]_vars

\* <p><a href> </p> </a>: the end tag of p met a on top and removed nothing,
\* the end tag of a then removed a alone
C16_Witness ==
  /\ nevents = 4
  /\ last_event = [kind |-> "end", tag |-> "a", text |-> <<>>]
  /\ hist.closed = {1, 2}
  /\ parser.tag_stack = <<"p">>

\* C17: once description, author or the declared keywords are set, a later
\* meta tag of the same rule does not overwrite the field: a field that is
\* non-empty before a parse event has the same value after it.
C17_FirstMetaWins ==
  [][ /\ parser.description # <<>> => parser'.description = parser.description
      /\ parser.author # <<>> => parser'.author = parser.author
      /\ parser.keywords # <<>> => parser'.keywords = parser.keywords ]_vars

\* C18: once title is non-empty no parse event changes it, be it more text
\* inside <title> or an og:title meta tag; og:title writes the title only
\* while it is empty.
C18_TitleFirstWriteWins ==
  [][ parser.title # <<>> => parser'.title = parser.title ]_vars

\* the title came from <title> text and an og:title meta tag with another
\* content arrived after it
C18_Witness ==
  /\ parser.title = <<"T","1">>
  /\ last_event.tag = "meta"
  /\ parser.rdfa_data # <<>>
  /\ Last(parser.rdfa_data).property = s_og_title
  /\ Last(parser.rdfa_data).content = <<"O","2">>

\* the chunks of current_content received under the elements ids, in order
OwnedText(p, h, ids) ==
  LET idx == { k \in DOMAIN h.buf_owner : h.buf_owner[k] \in ids }
  IN [n \in 1 .. Cardinality(idx) |->
        p.current_content[CHOOSE k \in idx :
                            Cardinality({ j \in idx : j < k }) = n - 1]]

\* C19: text is buffered per capturing element: the end tag of an inner
\* capturing element (the top of tag_stack) leaves in the buffer the text
\* received under the elements that enclose it and are still open, so the
\* enclosing paragraph or heading gets that text when it closes.
C19_InnerCloseKeepsOuterText ==
  [][ ( /\ last_event'.kind = "end"
        /\ last_event'.tag \in CapturingTags
        /\ Len(parser'.tag_stack) < Len(parser.tag_stack) )
      => LET enclosing == SeqToSet(ButLast(hist.open_ids))
         IN OwnedText(parser', hist', enclosing) = OwnedText(parser, hist, enclosing) ]_vars

\* C20: the end tag of an application/ld+json script whose own text is valid
\* JSON appends the parsed value, and nothing else, to json_ld_data, whatever
\* text an element still open at the script's start left in the buffer.
C20_ValidJsonLdAppended ==
  [][ ( /\ last_event'.kind = "end"
        /\ last_event'.tag = "script"
        /\ parser.in_script = "json-ld"
        /\ Len(hist.script_own) = 1
        /\ JsonLoads(hist.script_own[1]).ok )
      => parser'.json_ld_data
           = Append(parser.json_ld_data, JsonLoads(hist.script_own[1]).val) ]_vars

\* the keywords SCHEMA_TYPES declares for the type called name
TableKeywords(name) ==
  SCHEMA_TYPES[CHOOSE t \in DOMAIN SCHEMA_TYPES : SCHEMA_TYPES[t][1] = name][2]

\* the first type of names one of whose keywords is a substring of haystack
\* or of url; WebPage when there is none
FirstTableType(names, haystack, url) ==
  LET Hit(n) == \E k \in DOMAIN TableKeywords(names[n]) :
                   \/ Contains(TableKeywords(names[n])[k], haystack)
                   \/ Contains(TableKeywords(names[n])[k], url)
      hits == { n \in DOMAIN names : Hit(n) }
  IN IF hits = {} THEN s_WebPage
     ELSE names[CHOOSE n \in hits : \A m \in hits : n <= m]

\* title, description, the first max_h1 h1 headings and the first three
\* paragraphs, in lowercase
Haystack(p, max_h1) ==
  Lower(Join(<<" ">>, << p.title, p.description,
                         Join(<<" ">>, Slice(p.headings["h1"], max_h1)),
                         Join(<<" ">>, Slice(p.paragraphs, 3)) >>))

NoEarlierRule(p) ==
  /\ p.json_ld_data = <<>>
  /\ \A i \in DOMAIN p.microdata_items : p.microdata_items[i].type = <<>>
  /\ ~p.has_og_type

ListedTypes ==
  <<
     <<"A","r","t","i","c","l","e">>, <<"P","r","o","d","u","c","t">>, <<"E","v","e","n","t">>,
     <<"O","r","g","a","n","i","z","a","t","i","o","n">>, <<"P","e","r","s","o","n">>, <<"H","o","w","T","o">>,
     <<"F","A","Q","P","a","g","e">>, <<"C","o","n","t","a","c","t","P","a","g","e">>, <<"R","e","c","i","p","e">>,
     <<"V","i","d","e","o","O","b","j","e","c","t">>, <<"C","o","u","r","s","e">>, <<"J","o","b","P","o","s","t","i","n","g">>,
     <<"R","e","v","i","e","w">> >>

DeclaredTypes ==
  <<
     <<"A","r","t","i","c","l","e">>, <<"B","l","o","g","P","o","s","t","i","n","g">>, <<"N","e","w","s","A","r","t","i","c","l","e">>,
     <<"P","r","o","d","u","c","t">>, <<"E","v","e","n","t">>, <<"O","r","g","a","n","i","z","a","t","i","o","n">>,
     <<"P","e","r","s","o","n">>, <<"W","e","b","P","a","g","e">>, <<"H","o","w","T","o">>,
     <<"F","A","Q","P","a","g","e">>, <<"C","o","n","t","a","c","t","P","a","g","e">>, <<"R","e","c","i","p","e">>,
     <<"V","i","d","e","o","O","b","j","e","c","t">>, <<"C","o","u","r","s","e">>, <<"J","o","b","P","o","s","t","i","n","g">>,
     <<"R","e","v","i","e","w">> >>

ObjectsWith(lds, key) ==
  { i \in DOMAIN lds : lds[i].kind = "object" /\ DictHas(lds[i].members, key) }

\* C22 as stated: extract_schema_data takes each recognized key from the
\* first JSON-LD object that contains it; a later object containing the same
\* key does not replace the value taken from an earlier one.
C22_FirstObjectWins ==
  "extract_schema_data" \in DOMAIN returned =>
    \A k \in DOMAIN RecognizedKeys :
      LET key == RecognizedKeys[k]
          with == ObjectsWith(args.parser.json_ld_data, key)
      IN with # {} =>
           DictGet(returned["extract_schema_data"], key)
             = DictGet(args.parser.json_ld_data[CHOOSE i \in with :
                                                  \A j \in with : i <= j].members,
                       key)

RECURSIVE TokenSum(_)
TokenSum(ps) ==
  IF ps = <<>> THEN 0 ELSE TokenSum(ButLast(ps)) + SplitCount(Last(ps))

\* C23: in every reachable parser state word_count is the sum, over the
\* entries of paragraphs, of their numbers of whitespace-separated tokens.
C23_WordCountIsTokenSum == parser.word_count = TokenSum(parser.paragraphs)

\* a paragraph of three tokens out of two text events has been appended
C23_Witness ==
  /\ Len(parser.paragraphs) = 1
  /\ SplitCount(parser.paragraphs[1]) = 3
  /\ parser.word_count = 3

\* the step is an end tag of name tag that closes the element on top of
\* tag_stack
ClosesTop(tag) ==
  /\ nevents' = nevents + 1
  /\ last_event'.kind = "end"
  /\ last_event'.tag = tag
  /\ parser.tag_stack # <<>>
  /\ Last(parser.tag_stack) = tag

\* C24 as stated: when the anchor closed by </a> carried no href, so that
\* its start tag recorded no link, the text of every link recorded before
\* is left unchanged.
C24_NoHrefCloseKeepsLinks ==
  [][ ( ClosesTop("a") /\ Last(hist.open_entry) = 0 )
        => \A i \in DOMAIN parser.links :
              parser'.links[i].text = parser.links[i].text ]_vars

\* C25 as stated: an end tag closing a pre or code element leaves every
\* code_blocks entry but the one that element's start tag appended
\* unchanged, so that after <pre>, <code>, x, </code>, </pre> the entry for
\* code still holds x.
C25_CloseKeepsOtherCodeBlocks ==
  [][ \A tag \in {"pre", "code"} :
        ClosesTop(tag)
          => \A i \in DOMAIN parser.code_blocks :
                i # Last(hist.open_entry)
                  => parser'.code_blocks[i] = parser.code_blocks[i] ]_vars

\* a paragraph has been opened and no </p> has been received since
InOpenParagraph ==
  \E j \in DOMAIN parser.tag_stack :
     /\ parser.tag_stack[j] = "p"
     /\ hist.open_ids[j] \notin hist.closed

\* C26 as stated: every non-blank text event received between a paragraph's
\* start tag and its closing tag, outside script and style, is kept for the
\* paragraph finalized at that closing tag, also under a nested b or span
\* and after an img or br start tag.
C26_ParagraphTextCaptured ==
  [][ ( /\ nevents' = nevents + 1
        /\ last_event'.kind = "data"
        /\ Strip(last_event'.text) # <<>>
        /\ InOpenParagraph
        /\ parser.in_script = "False"
        /\ ~parser.in_style )
        => parser'.current_content
             = Append(parser.current_content, Strip(last_event'.text)) ]_vars

Readable(file) == file.readable

\* C27 as stated: detect_type returns for every parsed document, whatever
\* JSON values were collected as JSON-LD, so every document scan could read
\* is processed to a page and kept in pages.
C27_NoPageDroppedForJsonLd ==
  /\ \A i \in 1 .. nevents : Readable(html_files[i]) => Succeeds(html_files[i])
  /\ Len(pages) = Len(SelectSeq(SubSeq(html_files, 1, nevents), Readable))

\* C28: after every start-tag event and every end-tag event current_tag is
\* the top element of tag_stack, or None when tag_stack is empty; a text
\* event changes neither current_tag nor tag_stack.
C28_CurrentTagIsStackTop ==
  [][ nevents' = nevents + 1 =>
        /\ last_event'.kind \in {"start", "end"}
              => parser'.current_tag = IF parser'.tag_stack = <<>> THEN "None"
                                       ELSE Last(parser'.tag_stack)
        /\ last_event'.kind = "data"
              => /\ parser'.current_tag = parser.current_tag
                 /\ parser'.tag_stack = parser.tag_stack ]_vars

\* </a> inside a paragraph has popped the anchor: current_tag is p again
C28_Witness ==
  /\ last_event.kind = "end"
  /\ last_event.tag = "a"
  /\ parser.tag_stack = << "p" >>
  /\ parser.current_tag = "p"

============================================================================
